---------------------------- MODULE Spec2Model ----------------------------
(***************************************************************************)
(* A model of grobotstxt, the Go port of Google's robots.txt parser and    *)
(* matcher: the pattern matcher, the path extractor, the pattern           *)
(* canonicaliser, the line parser and the RobotsMatcher state machine.     *)
(*                                                                         *)
(* Strings are sequences of bytes (naturals below 256).  Go offsets are    *)
(* 0-based: At(s, i) is s[i].  A literal is written Str("text").           *)
(***************************************************************************)
EXTENDS Integers, Sequences, FiniteSets, TLC

VARIABLES
    m,                      \* the RobotsMatcher instance (its fields)
    fresh,                  \* a RobotsMatcher made for the call in progress
                            \* alone and given the same calls as m
    pc,                     \* position of the caller inside AllowedByRobots
    call,                   \* arguments of the call in progress / last made
    robotsBody,             \* RobotsTxtParser.robotsBody
    rpos,                   \* offset of the strings.Reader r in Parse
    lineNum,                \* Parse: lineNum
    lastWasCarriageReturn,  \* Parse: lastWasCarriageReturn
    events,                 \* handler calls made by the parse run so far
    result,                 \* value returned by AllowedByRobots
    AllowFrequentTypos,     \* the package variable AllowFrequentTypos
    ms,                     \* RobotsMatchStrategy_Matches: its locals
    before,                 \* the RobotsMatcher as the call in progress found it
    app,                    \* a call of one of the package's functions on its
                            \* own: the function, its argument, its results
    sitemaps,               \* sitemapExtractor: sitemaps
    tasks,                  \* two callers at once: their matchers, and each
                            \* one's call, parser and position
    handlerCalls            \* the ParseHandler methods the parse run called
                            \* so far, by name, in the order of the calls

vars == <<m, fresh, pc, call, robotsBody, rpos, lineNum, lastWasCarriageReturn,
          events, result, AllowFrequentTypos, ms, before, app,
          sitemaps, tasks, handlerCalls>>

---------------------------------------------------------------------------
(* Bytes and strings *)

\* The printable ASCII characters 32..95 and 97..126, in byte order
AsciiLow == " !\"#$%&'()*+,-./0123456789:;<=>?@ABCDEFGHIJKLMNOPQRSTUVWXYZ[\\]^_"

AsciiHigh == "abcdefghijklmnopqrstuvwxyz{|}~"

Ord(c) ==
    IF \E i \in 1..Len(AsciiLow) : SubSeq(AsciiLow, i, i) = c
    THEN 31 + (CHOOSE i \in 1..Len(AsciiLow) : SubSeq(AsciiLow, i, i) = c)
    ELSE 96 + (CHOOSE i \in 1..Len(AsciiHigh) : SubSeq(AsciiHigh, i, i) = c)

Str(s) == [i \in 1..Len(s) |-> Ord(SubSeq(s, i, i))]

At(s, i) == s[i + 1]

\* s[i:j]
Slice(s, i, j) == SubSeq(s, i + 1, j)

Min(S) == CHOOSE x \in S : \A y \in S : x <= y

Max(S) == CHOOSE x \in S : \A y \in S : x >= y

TAB == 9
LF == 10
CR == 13
SPACE == 32
HASH == 35
DOLLAR == 36
PERCENT == 37
STAR == 42
SLASH == 47
COLON == 58

\* strings.IndexByte(s[i:], b), shifted back by i (findByte)
findByte(s, b, i) ==
    LET I == {j \in i..(Len(s) - 1) : At(s, j) = b}
    IN  IF I = {} THEN -1 ELSE Min(I)

\* strings.IndexAny(s[i:], match), shifted back by i (findFirstOf)
findFirstOf(s, match, i) ==
    LET I == {j \in i..(Len(s) - 1) : \E k \in 1..Len(match) : At(s, j) = match[k]}
    IN  IF I = {} THEN -1 ELSE Min(I)

HasPrefixAt(s, sub, j) ==
    /\ j + Len(sub) <= Len(s)
    /\ \A k \in 1..Len(sub) : At(s, j + k - 1) = sub[k]

\* strings.Index(s[i:], match), shifted back by i (find)
find(s, match, i) ==
    LET I == {j \in i..Len(s) : HasPrefixAt(s, match, j)}
    IN  IF I = {} THEN -1 ELSE Min(I)

LastIndexByte(s, b) ==
    LET I == {j \in 0..(Len(s) - 1) : At(s, j) = b}
    IN  IF I = {} THEN -1 ELSE Max(I)

HasPrefix(s, sub) == HasPrefixAt(s, sub, 0)

\* unicode.IsSpace on a Latin-1 byte: \t \n \v \f \r, space, U+0085, U+00A0
isSpace(c) == c \in {9, 10, 11, 12, 13, 32, 133, 160}

\* White space as strings.TrimSpace sees it in a string whose bytes above
\* 0x7F do not encode a Unicode space: the six ASCII white-space bytes.
IsTrimSpace(c) == c \in {9, 10, 11, 12, 13, 32}

\* (the last byte kept is found from the end, as the first one from the start)
TrimSpace(s) ==
    LET I == {j \in 1..Len(s) : ~IsTrimSpace(s[j])}
        J == {j \in 1..Len(s) : ~IsTrimSpace(s[Len(s) + 1 - j])}
    IN  IF I = {} THEN <<>> ELSE SubSeq(s, Min(I), Len(s) + 1 - Min(J))

asciiIsAlpha(c) == (c >= 97 /\ c <= 122) \/ (c >= 65 /\ c <= 90)

\* strings.ToLower on a byte below 0x80
ToLowerByte(c) == IF c >= 65 /\ c <= 90 THEN c + 32 ELSE c

\* a string with its ASCII capitals made small, byte for byte
AsciiLower(s) == [i \in 1..Len(s) |-> ToLowerByte(s[i])]

\* UTF-8 of U+212A KELVIN SIGN and of U+017F LATIN SMALL LETTER LONG S, the
\* two runes outside ASCII that Unicode simple folding joins to an ASCII
\* letter ('k' and 's')
kelvinSign == <<226, 132, 170>>

longS == <<197, 191>>

\* UTF-8 of U+0130 LATIN CAPITAL LETTER I WITH DOT ABOVE, which with U+212A
\* is one of the two runes outside ASCII that unicode.ToLower takes to an
\* ASCII letter ('i' and 'k')
dottedI == <<196, 176>>

\* strings.Map(unicode.ToLower, s): rune by rune; the other runes outside
\* ASCII, which stay outside ASCII, are kept as they are
RECURSIVE ToLowerRunes(_)
ToLowerRunes(s) ==
    IF s = <<>> THEN <<>>
    ELSE IF HasPrefix(s, dottedI)
    THEN <<105>> \o ToLowerRunes(Slice(s, Len(dottedI), Len(s)))
    ELSE IF HasPrefix(s, kelvinSign)
    THEN <<107>> \o ToLowerRunes(Slice(s, Len(kelvinSign), Len(s)))
    ELSE <<ToLowerByte(Head(s))>> \o ToLowerRunes(Tail(s))

\* strings.ToLower: byte by byte when s is all ASCII, else rune by rune
ToLower(s) ==
    IF \A i \in 1..Len(s) : s[i] < 128
    THEN [i \in 1..Len(s) |-> ToLowerByte(s[i])]
    ELSE ToLowerRunes(s)

startsWithIgnoreCase(x, y) == HasPrefix(ToLower(x), ToLower(y))

\* A string with every rune replaced by the representative of its folding
\* orbit, for runes whose orbit holds an ASCII byte; other bytes are kept
RECURSIVE FoldRunes(_)
FoldRunes(s) ==
    IF s = <<>> THEN <<>>
    ELSE IF HasPrefix(s, kelvinSign)
    THEN <<107>> \o FoldRunes(Slice(s, Len(kelvinSign), Len(s)))
    ELSE IF HasPrefix(s, longS)
    THEN <<115>> \o FoldRunes(Slice(s, Len(longS), Len(s)))
    ELSE <<ToLowerByte(Head(s))>> \o FoldRunes(Tail(s))

\* byte-for-byte equality
equalsExactly(a, b) == a = b

\* strings.EqualFold; exact when one of the strings is all ASCII, as the
\* result of ExtractUserAgent passed by HandleUserAgent is
equalsIgnoreCase(a, b) == FoldRunes(a) = FoldRunes(b)

\* The string literals of the source
pathChars == Str("/?;")

schemeSep == Str("://")

rootPath == Str("/")

keyUserAgent == Str("user-agent")

keyUseragent == Str("useragent")

keyUserSpaceAgent == Str("user agent")

keyAllow == Str("allow")

keyDisallow == Str("disallow")

keyDissallow == Str("dissallow")

keyDissalow == Str("dissalow")

keyDisalow == Str("disalow")

keyDiasllow == Str("diasllow")

keyDisallaw == Str("disallaw")

keySitemap == Str("sitemap")

keySiteMap == Str("site-map")

indexHtm == Str("/index.htm")

---------------------------------------------------------------------------
(* RobotsMatchStrategy_Matches: the pattern matcher *)

\* The locals after "pos[0] = 0; numpos = 1", before the main loop, and
\* three counts: the passes through the main loop (iters), the passes
\* through the inner loop in the last of them (steps) and in all (work)
MatchesInit(path, pattern) ==
    [path |-> path, pattern |-> pattern, i |-> 0,
     pos |-> [k \in 1..(Len(path) + 1) |-> 0], numpos |-> 1,
     done |-> FALSE, ret |-> FALSE,
     iters |-> 0, steps |-> 0, work |-> 0]

\* the inner loop of the '*' case that fills pos anew for each candidate
StarStepsEach(s) == s.numpos * (Len(s.path) - At(s.pos, 0) + 1)

\* the passes through the inner loop of the '*' case: j from 1 below
\* the new numpos
StarSteps(s) == Len(s.path) - At(s.pos, 0)

\* MatchesStep with the final '$' tested against the smallest candidate
\* pos[0] instead of the largest
MatchesStepFirstCandidate(s) ==
    LET pathlen == Len(s.path)
        c == At(s.pattern, s.i)
    IN  IF ~(s.i < Len(s.pattern))
        THEN [s EXCEPT !.done = TRUE, !.ret = TRUE]
        ELSE IF c = DOLLAR /\ s.i + 1 = Len(s.pattern)
        THEN [s EXCEPT !.done = TRUE, !.ret = (At(s.pos, 0) = pathlen)]
        ELSE IF c = STAR
        THEN LET n == pathlen - At(s.pos, 0) + 1
             IN  [s EXCEPT !.numpos = n,
                           !.pos = [k \in 1..(pathlen + 1) |->
                                      IF k <= n THEN At(s.pos, 0) + (k - 1)
                                      ELSE s.pos[k]],
                           !.i = s.i + 1]
        ELSE LET kept == SelectSeq(SubSeq(s.pos, 1, s.numpos),
                                   LAMBDA p : p < pathlen /\ At(s.path, p) = c)
                 newnumpos == Len(kept)
             IN  [s EXCEPT !.numpos = newnumpos,
                           !.pos = [k \in 1..(pathlen + 1) |->
                                      IF k <= newnumpos THEN kept[k] + 1
                                      ELSE s.pos[k]],
                           !.i = IF newnumpos = 0 THEN s.i ELSE s.i + 1,
                           !.done = (newnumpos = 0),
                           !.ret = FALSE]

\* MatchesStep whose '*' spreads the candidates from the largest one,
\* pos[numpos-1], instead of the smallest
MatchesStepStarFromLast(s) ==
    LET pathlen == Len(s.path)
        c == At(s.pattern, s.i)
    IN  IF ~(s.i < Len(s.pattern))
        THEN [s EXCEPT !.done = TRUE, !.ret = TRUE]
        ELSE IF c = DOLLAR /\ s.i + 1 = Len(s.pattern)
        THEN [s EXCEPT !.done = TRUE,
                       !.ret = (At(s.pos, s.numpos - 1) = pathlen)]
        ELSE IF c = STAR
        THEN LET first == At(s.pos, s.numpos - 1)
                 n == pathlen - first + 1
             IN  [s EXCEPT !.numpos = n,
                           !.pos = [k \in 1..(pathlen + 1) |->
                                      IF k <= n THEN first + (k - 1)
                                      ELSE s.pos[k]],
                           !.i = s.i + 1]
        ELSE LET kept == SelectSeq(SubSeq(s.pos, 1, s.numpos),
                                   LAMBDA p : p < pathlen /\ At(s.path, p) = c)
                 newnumpos == Len(kept)
             IN  [s EXCEPT !.numpos = newnumpos,
                           !.pos = [k \in 1..(pathlen + 1) |->
                                      IF k <= newnumpos THEN kept[k] + 1
                                      ELSE s.pos[k]],
                           !.i = IF newnumpos = 0 THEN s.i ELSE s.i + 1,
                           !.done = (newnumpos = 0),
                           !.ret = FALSE]

\* One pass through the main loop: its exit test, then its body for
\* pattern[i]
MatchesStep(s) ==
    LET pathlen == Len(s.path)
        c == At(s.pattern, s.i)
    IN  IF ~(s.i < Len(s.pattern))
        THEN [s EXCEPT !.done = TRUE, !.ret = TRUE]
        ELSE IF c = DOLLAR /\ s.i + 1 = Len(s.pattern)
        THEN [s EXCEPT !.done = TRUE,
                       !.ret = (At(s.pos, s.numpos - 1) = pathlen),
                       !.iters = s.iters + 1, !.steps = 0]
        ELSE IF c = STAR
        THEN LET n == pathlen - At(s.pos, 0) + 1
             IN  [s EXCEPT !.numpos = n,
                           !.pos = [k \in 1..(pathlen + 1) |->
                                      IF k <= n THEN At(s.pos, 0) + (k - 1)
                                      ELSE s.pos[k]],
                           !.i = s.i + 1,
                           !.iters = s.iters + 1, !.steps = StarSteps(s),
                           !.work = s.work + StarSteps(s)]
        ELSE LET kept == SelectSeq(SubSeq(s.pos, 1, s.numpos),
                                   LAMBDA p : p < pathlen /\ At(s.path, p) = c)
                 newnumpos == Len(kept)
             IN  [s EXCEPT !.numpos = newnumpos,
                           !.pos = [k \in 1..(pathlen + 1) |->
                                      IF k <= newnumpos THEN kept[k] + 1
                                      ELSE s.pos[k]],
                           !.i = IF newnumpos = 0 THEN s.i ELSE s.i + 1,
                           !.done = (newnumpos = 0),
                           !.ret = FALSE,
                           !.iters = s.iters + 1, !.steps = s.numpos,
                           !.work = s.work + s.numpos]

RECURSIVE MatchesRun(_)
MatchesRun(s) == IF s.done THEN s.ret ELSE MatchesRun(MatchesStep(s))

RobotsMatchStrategy_Matches(path, pattern) ==
    MatchesRun(MatchesInit(path, pattern))

\* LongestMatchRobotsMatchStrategy
MatchAllow(path, pattern) ==
    IF RobotsMatchStrategy_Matches(path, pattern) THEN Len(pattern) ELSE -1

MatchDisallow(path, pattern) ==
    IF RobotsMatchStrategy_Matches(path, pattern) THEN Len(pattern) ELSE -1

---------------------------------------------------------------------------
(* GetPathParamsQuery: the path, params and query of a URI *)

\* GetPathParamsQuery that returns params or a query without the '/' in front
GetPathParamsQueryBare(uri) ==
    LET searchStart ==
            IF Len(uri) >= 2 /\ At(uri, 0) = SLASH /\ At(uri, 1) = SLASH
            THEN 2 ELSE 0
        earlyPath == findFirstOf(uri, pathChars, searchStart)
        protocolEnd0 == find(uri, schemeSep, searchStart)
        protocolEnd1 ==
            IF earlyPath # -1 /\ earlyPath < protocolEnd0 THEN -1
            ELSE protocolEnd0
        protocolEnd ==
            IF protocolEnd1 = -1 THEN searchStart ELSE protocolEnd1 + 3
        pathStart == findFirstOf(uri, pathChars, protocolEnd)
        hashPos == findByte(uri, HASH, searchStart)
        pathEnd == IF hashPos = -1 THEN Len(uri) ELSE hashPos
    IN  IF pathStart # -1
        THEN IF hashPos # -1 /\ hashPos < pathStart THEN rootPath
             ELSE IF At(uri, pathStart) # SLASH
                  THEN Slice(uri, pathStart, pathEnd)
                  ELSE Slice(uri, pathStart, pathEnd)
        ELSE rootPath

\* GetPathParamsQuery that does not ignore two slashes at the start
GetPathParamsQueryKeepSlashes(uri) ==
    LET searchStart == 0
        earlyPath == findFirstOf(uri, pathChars, searchStart)
        protocolEnd0 == find(uri, schemeSep, searchStart)
        protocolEnd1 ==
            IF earlyPath # -1 /\ earlyPath < protocolEnd0 THEN -1
            ELSE protocolEnd0
        protocolEnd ==
            IF protocolEnd1 = -1 THEN searchStart ELSE protocolEnd1 + 3
        pathStart == findFirstOf(uri, pathChars, protocolEnd)
        hashPos == findByte(uri, HASH, searchStart)
        pathEnd == IF hashPos = -1 THEN Len(uri) ELSE hashPos
    IN  IF pathStart # -1
        THEN IF hashPos # -1 /\ hashPos < pathStart THEN rootPath
             ELSE IF At(uri, pathStart) # SLASH
                  THEN rootPath \o Slice(uri, pathStart, pathEnd)
                  ELSE Slice(uri, pathStart, pathEnd)
        ELSE rootPath

\* GetPathParamsQuery that takes the first "://" for the end of a scheme
\* whatever stands before it
GetPathParamsQueryAnyScheme(uri) ==
    LET searchStart ==
            IF Len(uri) >= 2 /\ At(uri, 0) = SLASH /\ At(uri, 1) = SLASH
            THEN 2 ELSE 0
        protocolEnd0 == find(uri, schemeSep, searchStart)
        protocolEnd ==
            IF protocolEnd0 = -1 THEN searchStart ELSE protocolEnd0 + 3
        pathStart == findFirstOf(uri, pathChars, protocolEnd)
        hashPos == findByte(uri, HASH, searchStart)
        pathEnd == IF hashPos = -1 THEN Len(uri) ELSE hashPos
    IN  IF pathStart # -1
        THEN IF hashPos # -1 /\ hashPos < pathStart THEN rootPath
             ELSE IF At(uri, pathStart) # SLASH
                  THEN rootPath \o Slice(uri, pathStart, pathEnd)
                  ELSE Slice(uri, pathStart, pathEnd)
        ELSE rootPath

GetPathParamsQuery(uri) ==
    LET searchStart ==
            IF Len(uri) >= 2 /\ At(uri, 0) = SLASH /\ At(uri, 1) = SLASH
            THEN 2 ELSE 0
        earlyPath == findFirstOf(uri, pathChars, searchStart)
        protocolEnd0 == find(uri, schemeSep, searchStart)
        protocolEnd1 ==
            IF earlyPath # -1 /\ earlyPath < protocolEnd0 THEN -1
            ELSE protocolEnd0
        protocolEnd ==
            IF protocolEnd1 = -1 THEN searchStart ELSE protocolEnd1 + 3
        pathStart == findFirstOf(uri, pathChars, protocolEnd)
        hashPos == findByte(uri, HASH, searchStart)
        pathEnd == IF hashPos = -1 THEN Len(uri) ELSE hashPos
    IN  IF pathStart # -1
        THEN IF hashPos # -1 /\ hashPos < pathStart THEN rootPath
             ELSE IF At(uri, pathStart) # SLASH
                  THEN rootPath \o Slice(uri, pathStart, pathEnd)
                  ELSE Slice(uri, pathStart, pathEnd)
        ELSE rootPath

\* GetPathParamsQuery slices or indexes the URI out of range: s[i:] in
\* findFirstOf with i past the end, or uri[pathStart:pathEnd] with the
\* bounds out of order
GetPathParamsQueryPanics(uri) ==
    LET searchStart ==
            IF Len(uri) >= 2 /\ At(uri, 0) = SLASH /\ At(uri, 1) = SLASH
            THEN 2 ELSE 0
        earlyPath == findFirstOf(uri, pathChars, searchStart)
        protocolEnd0 == find(uri, schemeSep, searchStart)
        protocolEnd1 ==
            IF earlyPath # -1 /\ earlyPath < protocolEnd0 THEN -1
            ELSE protocolEnd0
        protocolEnd ==
            IF protocolEnd1 = -1 THEN searchStart ELSE protocolEnd1 + 3
        pathStart == findFirstOf(uri, pathChars, protocolEnd)
        hashPos == findByte(uri, HASH, searchStart)
        pathEnd == IF hashPos = -1 THEN Len(uri) ELSE hashPos
    IN  \/ searchStart > Len(uri)
        \/ protocolEnd > Len(uri)
        \/ /\ pathStart # -1
           /\ ~(hashPos # -1 /\ hashPos < pathStart)
           /\ (pathStart > pathEnd \/ pathEnd > Len(uri))

---------------------------------------------------------------------------
(* MaybeEscapePattern: the canonical form of an allow/disallow value *)

\* the digits in lower case
hexDigitsLower == Str("0123456789abcdef")

hexDigits == Str("0123456789ABCDEF")

isHexDigit(c) ==
    \/ (48 <= c /\ c <= 57)
    \/ (97 <= c /\ c <= 102)
    \/ (65 <= c /\ c <= 70)

isLower(c) == 97 <= c /\ c <= 122

\* c & (0xFF - 0x20): the byte with bit 5 cleared
toUpper(c) == IF (c \div 32) % 2 = 1 THEN c - 32 ELSE c

\* the closure s of MaybeEscapePattern: src[i], or 0 past the end
SrcAt(src, i) == IF i < Len(src) THEN At(src, i) ELSE 0

IsEscapeAt(src, i) ==
    /\ At(src, i) = PERCENT
    /\ isHexDigit(SrcAt(src, i + 1))
    /\ isHexDigit(SrcAt(src, i + 2))

\* The first scan.  Every index is visited: the scan does not step over the
\* two hex digits of an escape.
needCapitalise(src) ==
    \E i \in 0..(Len(src) - 1) :
        /\ IsEscapeAt(src, i)
        /\ (isLower(SrcAt(src, i + 1)) \/ isLower(SrcAt(src, i + 2)))

numToEscape(src) ==
    Cardinality({i \in 0..(Len(src) - 1) :
                    ~IsEscapeAt(src, i) /\ At(src, i) >= 128})

\* The second loop, from index i on
RECURSIVE EscapeFrom(_, _)
EscapeFrom(src, i) ==
    IF ~(i < Len(src)) THEN <<>>
    ELSE IF IsEscapeAt(src, i)
    THEN <<PERCENT, toUpper(At(src, i + 1)), toUpper(At(src, i + 2))>>
             \o EscapeFrom(src, i + 3)
    ELSE IF At(src, i) >= 128
    THEN <<PERCENT, At(hexDigits, (At(src, i) \div 16) % 16),
                    At(hexDigits, At(src, i) % 16)>>
             \o EscapeFrom(src, i + 1)
    ELSE <<At(src, i)>> \o EscapeFrom(src, i + 1)

\* MaybeEscapePattern that escapes a '%' outside an escape too, as "%25"
RECURSIVE MaybeEscapePatternPercent(_)
MaybeEscapePatternPercent(src) ==
    IF src = <<>> THEN <<>>
    ELSE IF IsEscapeAt(src, 0)
    THEN EscapeFrom(Slice(src, 0, 3), 0)
             \o MaybeEscapePatternPercent(Slice(src, 3, Len(src)))
    ELSE IF At(src, 0) = PERCENT
    THEN <<PERCENT, 50, 53>> \o MaybeEscapePatternPercent(Slice(src, 1, Len(src)))
    ELSE EscapeFrom(Slice(src, 0, 1), 0)
             \o MaybeEscapePatternPercent(Slice(src, 1, Len(src)))

MaybeEscapePattern(src) ==
    IF numToEscape(src) = 0 /\ ~needCapitalise(src) THEN src
    ELSE EscapeFrom(src, 0)

---------------------------------------------------------------------------
(* ParsedRobotsKey: the kind of a key *)

KeyIsUserAgent(key) ==
    \/ startsWithIgnoreCase(key, keyUserAgent)
    \/ (AllowFrequentTypos /\ (\/ startsWithIgnoreCase(key, keyUseragent)
                               \/ startsWithIgnoreCase(key, keyUserSpaceAgent)))

KeyIsAllow(key) == startsWithIgnoreCase(key, keyAllow)

\* KeyIsDisallow that takes the typos whatever AllowFrequentTypos is
KeyIsDisallowAnyTypo(key) ==
    \/ startsWithIgnoreCase(key, keyDisallow)
    \/ startsWithIgnoreCase(key, keyDissallow)
    \/ startsWithIgnoreCase(key, keyDissalow)
    \/ startsWithIgnoreCase(key, keyDisalow)
    \/ startsWithIgnoreCase(key, keyDiasllow)
    \/ startsWithIgnoreCase(key, keyDisallaw)

KeyIsDisallow(key) ==
    \/ startsWithIgnoreCase(key, keyDisallow)
    \/ (AllowFrequentTypos /\ (\/ startsWithIgnoreCase(key, keyDissallow)
                               \/ startsWithIgnoreCase(key, keyDissalow)
                               \/ startsWithIgnoreCase(key, keyDisalow)
                               \/ startsWithIgnoreCase(key, keyDiasllow)
                               \/ startsWithIgnoreCase(key, keyDisallaw)))

KeyIsSitemap(key) ==
    \/ startsWithIgnoreCase(key, keySitemap)
    \/ startsWithIgnoreCase(key, keySiteMap)

\* ParsedRobotsKey.Parse: the fields typ and keyText
ParsedRobotsKey(key) ==
    IF KeyIsUserAgent(key) THEN [typ |-> "UserAgent", keyText |-> <<>>]
    ELSE IF KeyIsAllow(key) THEN [typ |-> "Allow", keyText |-> <<>>]
    ELSE IF KeyIsDisallow(key) THEN [typ |-> "Disallow", keyText |-> <<>>]
    ELSE IF KeyIsSitemap(key) THEN [typ |-> "Sitemap", keyText |-> <<>>]
    ELSE [typ |-> "Unknown", keyText |-> key]

\* NeedEscapeValueForKey that is true of every key
NeedEscapeValueForKeyAny(k) == TRUE

NeedEscapeValueForKey(k) == k.typ \notin {"UserAgent", "Sitemap"}

---------------------------------------------------------------------------
(* RobotsTxtParser: one line *)

StripComment(line) ==
    LET comment == findByte(line, HASH, 0)
    IN  IF comment # -1 THEN Slice(line, 0, comment) ELSE line

\* outcome "ok": key and value; "none": no key and value in the line;
\* "panic": the line raises "Syntax error"
\* GetKeyAndValueFrom without the test for more than two words
GetKeyAndValueFromAnyWords(rawLine) ==
    LET line == TrimSpace(StripComment(rawLine))
        white == <<SPACE, TAB>>
        colon == findByte(line, COLON, 0)
        wsep == findFirstOf(line, white, 0)
        sep == IF colon # -1 THEN colon ELSE wsep
        none == [outcome |-> "none", key |-> <<>>, value |-> <<>>]
    IN  IF sep = -1
        THEN none
        ELSE LET key == TrimSpace(Slice(line, 0, sep))
             IN  IF Len(key) > 0
                 THEN [outcome |-> "ok", key |-> key,
                       value |-> TrimSpace(Slice(line, sep + 1, Len(line)))]
                 ELSE none

\* GetKeyAndValueFrom without the TrimSpace of the line
GetKeyAndValueFromUntrimmed(rawLine) ==
    LET line == StripComment(rawLine)
        white == <<SPACE, TAB>>
        colon == findByte(line, COLON, 0)
        wsep == findFirstOf(line, white, 0)
        sep == IF colon # -1 THEN colon ELSE wsep
        val == TrimSpace(Slice(line, wsep, Len(line)))
        none == [outcome |-> "none", key |-> <<>>, value |-> <<>>]
    IN  IF colon = -1 /\ wsep # -1 /\ Len(val) = 0
        THEN [outcome |-> "panic", key |-> <<>>, value |-> <<>>]
        ELSE IF colon = -1 /\ wsep # -1 /\ findFirstOf(val, white, 0) # -1
        THEN none
        ELSE IF sep = -1
        THEN none
        ELSE LET key == TrimSpace(Slice(line, 0, sep))
             IN  IF Len(key) > 0
                 THEN [outcome |-> "ok", key |-> key,
                       value |-> TrimSpace(Slice(line, sep + 1, Len(line)))]
                 ELSE none

GetKeyAndValueFrom(rawLine) ==
    LET line == TrimSpace(StripComment(rawLine))
        white == <<SPACE, TAB>>
        colon == findByte(line, COLON, 0)
        wsep == findFirstOf(line, white, 0)
        sep == IF colon # -1 THEN colon ELSE wsep
        val == TrimSpace(Slice(line, wsep, Len(line)))
        none == [outcome |-> "none", key |-> <<>>, value |-> <<>>]
    IN  IF colon = -1 /\ wsep # -1 /\ Len(val) = 0
        THEN [outcome |-> "panic", key |-> <<>>, value |-> <<>>]
        ELSE IF colon = -1 /\ wsep # -1 /\ findFirstOf(val, white, 0) # -1
        THEN none
        ELSE IF sep = -1
        THEN none
        ELSE LET key == TrimSpace(Slice(line, 0, sep))
             IN  IF Len(key) > 0
                 THEN [outcome |-> "ok", key |-> key,
                       value |-> TrimSpace(Slice(line, sep + 1, Len(line)))]
                 ELSE none

\* ParseAndEmitLine that makes no call for a key of no known kind
ParseAndEmitLineKnownOnly(currentLine, line) ==
    LET kv == GetKeyAndValueFrom(line)
        key == ParsedRobotsKey(kv.key)
    IN  IF kv.outcome # "ok" \/ key.typ = "Unknown" THEN <<>>
        ELSE <<[kind |-> key.typ, line |-> currentLine, action |-> key.keyText,
                value |-> IF NeedEscapeValueForKey(key)
                          THEN MaybeEscapePattern(kv.value)
                          ELSE kv.value]>>

\* ParseAndEmitLine that makes its call twice
ParseAndEmitLineTwice(currentLine, line) ==
    LET kv == GetKeyAndValueFrom(line)
        key == ParsedRobotsKey(kv.key)
        e == [kind |-> key.typ, line |-> currentLine, action |-> key.keyText,
              value |-> IF NeedEscapeValueForKey(key)
                        THEN MaybeEscapePattern(kv.value)
                        ELSE kv.value]
    IN  IF kv.outcome # "ok" THEN <<>> ELSE <<e, e>>

\* ParseAndEmitLine and EmitKeyValueToHandler: the handler calls made for
\* one line (none or one), each with the handler's name and arguments
ParseAndEmitLine(currentLine, line) ==
    LET kv == GetKeyAndValueFrom(line)
        key == ParsedRobotsKey(kv.key)
    IN  IF kv.outcome # "ok" THEN <<>>
        ELSE <<[kind |-> key.typ, line |-> currentLine, action |-> key.keyText,
                value |-> IF NeedEscapeValueForKey(key)
                          THEN MaybeEscapePattern(kv.value)
                          ELSE kv.value]>>

\* ParseAndEmitLine panics: "Syntax error" in GetKeyAndValueFrom, or "bad
\* call to GetUnknownText" in EmitKeyValueToHandler
ParseAndEmitLinePanics(line) ==
    LET kv == GetKeyAndValueFrom(line)
        key == ParsedRobotsKey(kv.key)
    IN  \/ kv.outcome = "panic"
        \/ kv.outcome = "ok" /\ key.typ = "Unknown" /\ key.keyText = <<>>

---------------------------------------------------------------------------
(* match, matchHierarchy and RobotsMatcher *)

noMatchPriority == -1

newMatch == [priority |-> noMatchPriority, line |-> 0]

newMatchHierarchy == [global |-> newMatch, specific |-> newMatch]

\* match.Set
Set(priority, line) == [priority |-> priority, line |-> line]

NewRobotsMatcher ==
    [allowMatch |-> newMatchHierarchy,
     disallowMatch |-> newMatchHierarchy,
     seenGlobalAgent |-> FALSE,
     seenSpecificAgent |-> FALSE,
     everSeenSpecificAgent |-> FALSE,
     seenSeparator |-> FALSE,
     path |-> <<>>,
     userAgents |-> <<>>]

\* seenAnyAgent that is true whatever was seen
seenAnyAgentAlways(mm) == TRUE

seenAnyAgent(mm) == mm.seenGlobalAgent \/ mm.seenSpecificAgent

\* InitUserAgentsAndPath panics when the path does not begin with '/'
InitPanics(path) == Len(path) = 0 \/ At(path, 0) # SLASH

InitUserAgentsAndPath(mm, userAgents, path) ==
    [mm EXCEPT !.path = path, !.userAgents = userAgents]

\* disallow with "no match" taken for a match of priority 0
disallowNoMatchAsEmpty(mm) ==
    IF mm.allowMatch.specific.priority >= 0 \/ mm.disallowMatch.specific.priority >= 0
    THEN mm.disallowMatch.specific.priority >= mm.allowMatch.specific.priority
    ELSE IF mm.everSeenSpecificAgent
    THEN FALSE
    ELSE mm.disallowMatch.global.priority >= mm.allowMatch.global.priority

\* disallow with ties between the priorities going to the disallow rule
disallowOnTie(mm) ==
    IF mm.allowMatch.specific.priority > 0 \/ mm.disallowMatch.specific.priority > 0
    THEN mm.disallowMatch.specific.priority >= mm.allowMatch.specific.priority
    ELSE IF mm.everSeenSpecificAgent
    THEN FALSE
    ELSE IF mm.disallowMatch.global.priority > 0 \/ mm.allowMatch.global.priority > 0
    THEN mm.disallowMatch.global.priority >= mm.allowMatch.global.priority
    ELSE FALSE

\* disallow without the test of everSeenSpecificAgent
disallowFallsBackToGlobal(mm) ==
    IF mm.allowMatch.specific.priority > 0 \/ mm.disallowMatch.specific.priority > 0
    THEN mm.disallowMatch.specific.priority > mm.allowMatch.specific.priority
    ELSE IF mm.disallowMatch.global.priority > 0 \/ mm.allowMatch.global.priority > 0
    THEN mm.disallowMatch.global.priority > mm.allowMatch.global.priority
    ELSE FALSE

\* disallow without the test of everSeenSpecificAgent
disallowForgetful(mm) ==
    IF mm.allowMatch.specific.priority > 0 \/ mm.disallowMatch.specific.priority > 0
    THEN mm.disallowMatch.specific.priority > mm.allowMatch.specific.priority
    ELSE IF mm.disallowMatch.global.priority > 0 \/ mm.allowMatch.global.priority > 0
    THEN mm.disallowMatch.global.priority > mm.allowMatch.global.priority
    ELSE FALSE

disallow(mm) ==
    IF mm.allowMatch.specific.priority > 0 \/ mm.disallowMatch.specific.priority > 0
    THEN mm.disallowMatch.specific.priority > mm.allowMatch.specific.priority
    ELSE IF mm.everSeenSpecificAgent
    THEN FALSE
    ELSE IF mm.disallowMatch.global.priority > 0 \/ mm.allowMatch.global.priority > 0
    THEN mm.disallowMatch.global.priority > mm.allowMatch.global.priority
    ELSE FALSE

\* HandleRobotsStart without the reset of the two match hierarchies
HandleRobotsStartFlagsOnly(mm) ==
    [mm EXCEPT !.seenGlobalAgent = FALSE,
               !.seenSpecificAgent = FALSE,
               !.everSeenSpecificAgent = FALSE,
               !.seenSeparator = FALSE]

HandleRobotsStart(mm) ==
    [mm EXCEPT !.allowMatch = [global |-> Set(noMatchPriority, 0),
                               specific |-> Set(noMatchPriority, 0)],
               !.disallowMatch = [global |-> Set(noMatchPriority, 0),
                                  specific |-> Set(noMatchPriority, 0)],
               !.seenGlobalAgent = FALSE,
               !.seenSpecificAgent = FALSE,
               !.everSeenSpecificAgent = FALSE,
               !.seenSeparator = FALSE]

\* ExtractUserAgent that takes decimal digits and '~' into the token too
ExtractUserAgentWider(userAgent) ==
    LET I == {j \in 0..(Len(userAgent) - 1) :
                 LET c == At(userAgent, j)
                 IN  ~(asciiIsAlpha(c) \/ c = 45 \/ c = 95 \/ c \in 48..57
                       \/ c = 126)}
        i == IF I = {} THEN Len(userAgent) ELSE Min(I)
    IN  Slice(userAgent, 0, i)

ExtractUserAgent(userAgent) ==
    LET I == {j \in 0..(Len(userAgent) - 1) :
                 LET c == At(userAgent, j)
                 IN  ~(asciiIsAlpha(c) \/ c = 45 \/ c = 95)}
        i == IF I = {} THEN Len(userAgent) ELSE Min(I)
    IN  Slice(userAgent, 0, i)

IsValidUserAgentToObey(userAgent) ==
    Len(userAgent) > 0 /\ ExtractUserAgent(userAgent) = userAgent

\* the first test of HandleUserAgent: '*' alone or followed by white space
IsGlobalAgentValue(userAgent) ==
    /\ Len(userAgent) >= 1
    /\ At(userAgent, 0) = STAR
    /\ (Len(userAgent) = 1 \/ isSpace(At(userAgent, 1)))

\* the loop of HandleUserAgent over m.userAgents
\* IsSpecificAgentValue looking at the first agent of the list only
IsSpecificAgentValueFirstOnly(mm, userAgent) ==
    /\ Len(mm.userAgents) > 0
    /\ equalsIgnoreCase(ExtractUserAgent(userAgent), mm.userAgents[1])

IsSpecificAgentValue(mm, userAgent) ==
    \E k \in 1..Len(mm.userAgents) :
        equalsIgnoreCase(ExtractUserAgent(userAgent), mm.userAgents[k])

\* HandleUserAgent without the reset of the flags after a rule
HandleUserAgentSameGroup(mm, lineNum_, userAgent) ==
    IF IsGlobalAgentValue(userAgent)
    THEN [mm EXCEPT !.seenGlobalAgent = TRUE]
    ELSE IF IsSpecificAgentValue(mm, userAgent)
    THEN [mm EXCEPT !.everSeenSpecificAgent = TRUE,
                    !.seenSpecificAgent = TRUE]
    ELSE mm

HandleUserAgent(mm, lineNum_, userAgent) ==
    LET m1 == IF mm.seenSeparator
              THEN [mm EXCEPT !.seenSpecificAgent = FALSE,
                              !.seenGlobalAgent = FALSE,
                              !.seenSeparator = FALSE]
              ELSE mm
    IN  IF IsGlobalAgentValue(userAgent)
        THEN [m1 EXCEPT !.seenGlobalAgent = TRUE]
        ELSE IF IsSpecificAgentValue(m1, userAgent)
        THEN [m1 EXCEPT !.everSeenSpecificAgent = TRUE,
                        !.seenSpecificAgent = TRUE]
        ELSE m1

\* the index.htm rewrite of HandleAllow applies to value
IsIndexHtm(value) ==
    LET slashPos == LastIndexByte(value, SLASH)
    IN  /\ slashPos # -1
        /\ HasPrefix(Slice(value, slashPos, Len(value)), indexHtm)

\* the rewritten pattern without the '$' that anchors it
IndexHtmPatternOpen(value) ==
    Slice(value, 0, LastIndexByte(value, SLASH) + 1)

\* the rewrite that first turns a name ending in 'l' (index.html) into
\* index.htm
IndexHtmPatternByName(value) ==
    IF value[Len(value)] = 108 THEN Slice(value, 0, Len(value) - 1)
    ELSE Slice(value, 0, LastIndexByte(value, SLASH) + 1) \o <<DOLLAR>>

IndexHtmPattern(value) ==
    Slice(value, 0, LastIndexByte(value, SLASH) + 1) \o <<DOLLAR>>

\* HandleDisallow with seenSeparator set ahead of the seenAnyAgent guard
HandleDisallowSeparatorFirst(mm, lineNum_, value) ==
    LET m1 == [mm EXCEPT !.seenSeparator = TRUE]
        priority == MatchDisallow(m1.path, value)
    IN  IF ~seenAnyAgent(mm) \/ priority < 0 THEN m1
        ELSE IF m1.seenSpecificAgent
        THEN IF m1.disallowMatch.specific.priority < priority
             THEN [m1 EXCEPT !.disallowMatch.specific = Set(priority, lineNum_)]
             ELSE m1
        ELSE IF m1.disallowMatch.global.priority < priority
             THEN [m1 EXCEPT !.disallowMatch.global = Set(priority, lineNum_)]
             ELSE m1

RECURSIVE HandleAllow(_, _, _)
HandleAllow(mm, lineNum_, value) ==
    IF ~seenAnyAgent(mm) THEN mm
    ELSE LET m1 == [mm EXCEPT !.seenSeparator = TRUE]
             priority == MatchAllow(m1.path, value)
         IN  IF priority >= 0
             THEN IF m1.seenSpecificAgent
                  THEN IF m1.allowMatch.specific.priority < priority
                       THEN [m1 EXCEPT !.allowMatch.specific = Set(priority, lineNum_)]
                       ELSE m1
                  ELSE IF m1.allowMatch.global.priority < priority
                       THEN [m1 EXCEPT !.allowMatch.global = Set(priority, lineNum_)]
                       ELSE m1
             ELSE IF IsIndexHtm(value)
                  THEN HandleAllow(m1, lineNum_, IndexHtmPattern(value))
                  ELSE m1

\* HandleDisallow that also records a rule of the same priority
HandleDisallowLatest(mm, lineNum_, value) ==
    IF ~seenAnyAgent(mm) THEN mm
    ELSE LET m1 == [mm EXCEPT !.seenSeparator = TRUE]
             priority == MatchDisallow(m1.path, value)
         IN  IF priority >= 0
             THEN IF m1.seenSpecificAgent
                  THEN IF m1.disallowMatch.specific.priority <= priority
                       THEN [m1 EXCEPT !.disallowMatch.specific = Set(priority, lineNum_)]
                       ELSE m1
                  ELSE IF m1.disallowMatch.global.priority <= priority
                       THEN [m1 EXCEPT !.disallowMatch.global = Set(priority, lineNum_)]
                       ELSE m1
             ELSE m1

HandleDisallow(mm, lineNum_, value) ==
    IF ~seenAnyAgent(mm) THEN mm
    ELSE LET m1 == [mm EXCEPT !.seenSeparator = TRUE]
             priority == MatchDisallow(m1.path, value)
         IN  IF priority >= 0
             THEN IF m1.seenSpecificAgent
                  THEN IF m1.disallowMatch.specific.priority < priority
                       THEN [m1 EXCEPT !.disallowMatch.specific = Set(priority, lineNum_)]
                       ELSE m1
                  ELSE IF m1.disallowMatch.global.priority < priority
                       THEN [m1 EXCEPT !.disallowMatch.global = Set(priority, lineNum_)]
                       ELSE m1
             ELSE m1

\* HandleAllow and HandleDisallow panic with "Not seen global agent" when a
\* matching rule is routed to the global score and seenGlobalAgent is unset
RECURSIVE HandleAllowPanics(_, _)
HandleAllowPanics(mm, value) ==
    /\ seenAnyAgent(mm)
    /\ IF MatchAllow(mm.path, value) >= 0
       THEN ~mm.seenSpecificAgent /\ ~mm.seenGlobalAgent
       ELSE IsIndexHtm(value) /\ HandleAllowPanics(mm, IndexHtmPattern(value))

HandleDisallowPanics(mm, value) ==
    /\ seenAnyAgent(mm)
    /\ MatchDisallow(mm.path, value) >= 0
    /\ ~mm.seenSpecificAgent /\ ~mm.seenGlobalAgent

\* HandleSitemap that closes the group of agent lines, as a rule does
HandleSitemapSeparates(mm, lineNum_, value) == [mm EXCEPT !.seenSeparator = TRUE]

HandleSitemap(mm, lineNum_, value) == mm

HandleUnknownAction(mm, lineNum_, action, value) == mm

HandleRobotsEnd(mm) == mm

\* the ParseHandler method EmitKeyValueToHandler calls for a key of this type
HandlerOf(typ) ==
    CASE typ = "UserAgent" -> "HandleUserAgent"
      [] typ = "Allow" -> "HandleAllow"
      [] typ = "Disallow" -> "HandleDisallow"
      [] typ = "Sitemap" -> "HandleSitemap"
      [] typ = "Unknown" -> "HandleUnknownAction"

\* the methods called for the calls es of one line
HandlersOf(es) == [k \in 1..Len(es) |-> HandlerOf(es[k].kind)]

\* EmitKeyValueToHandler with the RobotsMatcher as the handler
EmitKeyValueToHandler(mm, e) ==
    CASE e.kind = "UserAgent" -> HandleUserAgent(mm, e.line, e.value)
      [] e.kind = "Allow" -> HandleAllow(mm, e.line, e.value)
      [] e.kind = "Disallow" -> HandleDisallow(mm, e.line, e.value)
      [] e.kind = "Sitemap" -> HandleSitemap(mm, e.line, e.value)
      [] e.kind = "Unknown" -> HandleUnknownAction(mm, e.line, e.action, e.value)

\* GetUnknownText panics unless the key is Unknown with a non-empty text
EmitPanics(mm, e) ==
    CASE e.kind = "Allow" -> HandleAllowPanics(mm, e.value)
      [] e.kind = "Disallow" -> HandleDisallowPanics(mm, e.value)
      [] e.kind = "Unknown" -> Len(e.action) = 0
      [] OTHER -> FALSE

RECURSIVE EmitAll(_, _)
EmitAll(mm, es) ==
    IF es = <<>> THEN mm ELSE EmitAll(EmitKeyValueToHandler(mm, Head(es)), Tail(es))

---------------------------------------------------------------------------
(* RobotsTxtParser.Parse, one line at a time *)

utfBOM == <<239, 187, 191>>

maxLineLen == 2083 * 8

\* SkipBOM that consumes a whole BOM only
SkipBOMWhole(body) == IF HasPrefix(body, utfBOM) THEN 3 ELSE 0

\* the bytes the BOM loop consumes: the longest prefix of the body that is a
\* prefix of utfBOM
SkipBOM(body) ==
    Max({k \in 0..3 : k <= Len(body) /\ \A i \in 0..(k - 1) : At(body, i) = At(utfBOM, i)})

IsLineEnd(b) == b = LF \/ b = CR

\* offset of the first line-ending byte at or after offset from, or -1
NextLineEnd(body, from) ==
    LET I == {j \in from..(Len(body) - 1) : IsLineEnd(At(body, j))}
    IN  IF I = {} THEN -1 ELSE Min(I)

\* LineBuffer with room for maxLineLen bytes
LineBufferWider(body, from, to) ==
    IF to - from < maxLineLen THEN Slice(body, from, to)
    ELSE Slice(body, from, from + maxLineLen)

\* lineBuffer once the bytes body[from:to] went through the append guard
LineBuffer(body, from, to) ==
    IF to - from < maxLineLen - 1 THEN Slice(body, from, to)
    ELSE Slice(body, from, from + (maxLineLen - 1))

---------------------------------------------------------------------------
(* Inputs *)

MaxLines == 3

RECURSIVE Join(_, _)
Join(ls, eol) ==
    IF ls = <<>> THEN <<>> ELSE Head(ls) \o eol \o Join(Tail(ls), eol)

SeqsUpTo(S, n) == UNION {[1..k -> S] : k \in 0..n}

uaStar == Str("user-agent: *")

uaFooBar == Str("User-Agent: FOO bar")

uaBar == Str("user-agent: bar")

uaNone == Str("user-agent:")

allowEmpty == Str("allow:")

allowX == Str("allow: /x")

allowIndex == Str("allow: /x/index.html")

disallowEmpty == Str("disallow:")

disallowStar == Str("disallow: /*")

disallowXSlash == Str("disallow: /x/")

disallowRoot == Str("disallow: /")

\* "allow: /x/" and the byte 0xE3
allowHigh == Str("allow: /x/") \o <<227>>

Lines ==
    {uaStar, uaFooBar, uaBar, allowX, allowIndex, disallowStar, disallowXSlash}

agentFoo == Str("foo")

agentBar == Str("bar")

AgentLists == {<<agentFoo>>, <<<<>>>>, <<agentBar, agentFoo>>}

uriXSlash == Str("http://h/x/")

uriX == Str("/x")

uriIndex == Str("h/x/index.html?a#b")

\* "http://h/x/" and the byte 0xE3, as it is and percent-encoded
uriHigh == Str("http://h/x/") \o <<227>>

uriHighEncoded == Str("http://h/x/%E3")

Uris == {uriXSlash, uriX}

Q(body, userAgents, uri) ==
    [robotsBody |-> body, userAgents |-> userAgents, uri |-> uri]

\* caller agents with a byte outside [A-Za-z_-], and a line for one
agentFooNine == Str("foo9")

agentFooSpaceBar == Str("FOO bar")

uaFooNine == Str("user-agent: foo9")

\* Bodies of the repository's tests, with other line endings and without a
\* final line ending, and queries on them
Scenarios ==
    {Q(Join(<<uaFooBar, disallowXSlash, allowX>>, <<CR, LF>>), <<agentFoo>>, uriXSlash),
     Q(Join(<<uaStar, allowIndex, disallowStar>>, <<CR>>), <<agentFoo>>, uriIndex),
     Q(Join(<<uaStar, allowIndex, disallowStar>>, <<LF>>), <<agentFoo>>, uriIndex),
     Q(Join(<<uaBar, Str("Disallow: /x/index.html"), allowX>>, <<LF>>), <<agentBar>>, uriXSlash),
     Q(<<>>, <<agentFoo>>, uriX),
     Q(<<>>, <<<<>>>>, <<>>),
     Q(Join(<<uaFooBar, disallowStar>>, <<LF>>), <<agentFoo>>, <<>>),
     Q(Join(<<uaFooBar, disallowEmpty, allowEmpty>>, <<LF>>), <<agentFoo>>, uriX),
     Q(Join(<<uaFooBar, disallowEmpty>>, <<LF>>), <<agentFoo>>, uriX),
     Q(Join(<<uaStar, uaBar, disallowEmpty, allowX>>, <<LF>>), <<agentFoo>>, uriX),
     Q(Join(<<uaStar, allowEmpty, disallowEmpty>>, <<LF>>), <<agentFoo>>, uriX),
     Q(Join(<<uaStar, allowEmpty, disallowStar>>, <<LF>>), <<agentBar>>, uriX),
     Q(Join(<<uaNone, disallowStar>>, <<LF>>), <<<<>>>>, uriX),
     Q(Join(<<uaNone, disallowStar>>, <<LF>>), <<agentFoo>>, uriX),
     Q(Join(<<uaBar, disallowStar>>, <<CR, LF>>), <<agentFoo>>, uriXSlash),
     Q(Join(<<Str("user-agent: 9foo"), disallowStar>>, <<LF>>), <<<<>>>>, uriX),
     Q(Join(<<Str("user-agent: k"), disallowStar>>, <<LF>>), <<kelvinSign>>, uriX),
     Q(Join(<<Str("user-agent: k"), disallowStar>>, <<LF>>), <<longS>>, uriX),
     Q(Join(<<allowX, <<>>, uaFooBar, disallowStar, allowX, uaBar, disallowStar,
              <<>>, uaStar, uaFooBar, allowEmpty>>, <<LF>>)
         \o disallowXSlash, <<agentFoo>>, uriXSlash),
     Q(Join(<<uaStar, disallowXSlash, uaFooBar>>, <<LF>>) \o Str("disallow: /y"),
       <<agentBar, agentFoo>>, uriXSlash),
     Q(Join(<<uaBar, disallowXSlash, uaFooBar, allowX>>, <<LF>>),
       <<agentBar, agentFoo>>, uriXSlash),
     Q(Join(<<uaFooBar, disallowRoot, allowHigh>>, <<LF>>), <<agentFoo>>, uriHigh),
     Q(Join(<<uaFooBar, disallowRoot, allowHigh>>, <<LF>>), <<agentFoo>>,
       uriHighEncoded),
     Q(Join(<<uaFooNine, disallowXSlash>>, <<LF>>), <<agentFooNine>>, uriXSlash),
     Q(Join(<<uaStar, disallowXSlash, uaFooBar, allowX>>, <<LF>>), <<agentFooSpaceBar>>,
       uriXSlash),
     Q(Join(<<uaFooBar, disallowXSlash>>, <<LF>>), <<agentFooSpaceBar, agentFooNine>>,
       uriXSlash)}

\* the two lines of ID_UTF8ByteOrderMarkIsSkipped
uaFooAllowAny == Str("User-Agent: foo") \o <<LF>> \o Str("Allow: /AnyValue") \o <<LF>>

\* bodies that exercise the parser alone, asked for foo on /x
ParserBodies ==
    {utfBOM \o uaFooAllowAny,
     <<239, 187>> \o uaFooAllowAny,
     <<239>> \o uaFooAllowAny,
     <<239, 17, 191>> \o uaFooAllowAny,
     Str("User-Agent: foo") \o <<LF>> \o utfBOM \o Str("Allow: /AnyValue") \o <<LF>>,
     <<239, 187>> \o utfBOM \o uaFooAllowAny,
     utfBOM,
     <<239, 187>>}

\* "sitemap: " and then 'a' up to maxLineLen bytes in all
longLine == Str("sitemap: ") \o [i \in 1..(maxLineLen - 9) |-> 97]

\* a line of maxLineLen bytes and a longer one, between two other lines
LongLineBodies ==
    {Join(<<uaFooBar, longLine, disallowXSlash>>, <<LF>>),
     Join(<<uaFooBar, longLine \o Str("bb"), disallowXSlash>>, <<LF>>)}

Queries ==
    {Q(Join(ls, <<LF>>), ua, uri) :
        ls \in SeqsUpTo(Lines, MaxLines), ua \in AgentLists, uri \in Uris}
    \cup Scenarios
    \cup {Q(body, <<agentFoo>>, uriX) : body \in ParserBodies \cup LongLineBodies}

---------------------------------------------------------------------------
(* The state machine: calls of AllowedByRobots on one RobotsMatcher *)

NoCall == Q(<<>>, <<>>, <<>>)

\* a function call: the function, its argument, where the call is ("call",
\* "returned", "returned again" once the function was applied to its own
\* result, or "panic"), the result and the result of the second application
App(fn, arg) == [fn |-> fn, arg |-> arg, at |-> "call", ret |-> <<>>, ret2 |-> <<>>]

NoApp == [App("", <<>>) EXCEPT !.at = "none"]

\* a caller: its call, where it is in it ("none" for no caller), the fields
\* of its parser, and what it was returned
Task(q) ==
    [call |-> q, pc |-> "idle", rpos |-> 0, lineNum |-> 0,
     lastWasCarriageReturn |-> FALSE, result |-> FALSE]

NoTasks ==
    [shared |-> FALSE,
     matcher |-> <<NewRobotsMatcher, NewRobotsMatcher>>,
     task |-> <<[Task(NoCall) EXCEPT !.pc = "none"], [Task(NoCall) EXCEPT !.pc = "none"]>>]

InitParserIdle ==
    /\ robotsBody = <<>>
    /\ rpos = 0
    /\ lineNum = 0
    /\ lastWasCarriageReturn = FALSE

InitMatchesIdle == ms = MatchesInit(<<>>, <<>>)

Init ==
    /\ m = NewRobotsMatcher
    /\ fresh = NewRobotsMatcher
    /\ pc = "idle"
    /\ call = NoCall
    /\ InitParserIdle
    /\ events = <<>>
    /\ result = FALSE
    /\ AllowFrequentTypos = TRUE
    /\ InitMatchesIdle
    /\ before = NewRobotsMatcher
    /\ sitemaps = <<>>
    /\ tasks = NoTasks
    /\ handlerCalls = <<>>
    /\ app = NoApp

\* AllowedByRobots up to the call of ParseRobotsTxt: the path is extracted
\* and installed with the agents, and the parser is built on the body
AllowedByRobots(body, userAgents, uri) ==
    LET path == GetPathParamsQuery(uri)
    IN  /\ call' = Q(body, userAgents, uri)
        /\ before' = m
        /\ IF InitPanics(path)
           THEN /\ m' = [m EXCEPT !.path = path]
                /\ fresh' = [NewRobotsMatcher EXCEPT !.path = path]
                /\ pc' = "panic"
                /\ UNCHANGED robotsBody
           ELSE /\ m' = InitUserAgentsAndPath(m, userAgents, path)
                /\ fresh' = InitUserAgentsAndPath(NewRobotsMatcher, userAgents, path)
                /\ pc' = "start"
                /\ robotsBody' = body
        /\ rpos' = 0
        /\ lineNum' = 0
        /\ lastWasCarriageReturn' = FALSE
        /\ events' = <<>>
        /\ handlerCalls' = <<>>
        /\ UNCHANGED <<result, AllowFrequentTypos, ms, app, sitemaps, tasks>>

\* Parse up to the line loop: HandleRobotsStart, then the BOM is skipped
ParseStart ==
    /\ pc = "start"
    /\ m' = HandleRobotsStart(m)
    /\ fresh' = HandleRobotsStart(fresh)
    /\ rpos' = SkipBOM(robotsBody)
    /\ lineNum' = 0
    /\ lastWasCarriageReturn' = FALSE
    /\ pc' = "lines"
    /\ handlerCalls' = Append(handlerCalls, "HandleRobotsStart")
    /\ UNCHANGED <<call, robotsBody, events, result, AllowFrequentTypos, ms, before, app, sitemaps, tasks>>

\* The line loop up to and including a line-ending byte that ends a line
ParseLine ==
    LET e == NextLineEnd(robotsBody, rpos)
        lineBuffer == LineBuffer(robotsBody, rpos, e)
        es == ParseAndEmitLine(lineNum + 1, lineBuffer)
    IN  /\ pc = "lines"
        /\ e # -1
        /\ ~(Len(lineBuffer) = 0 /\ lastWasCarriageReturn /\ At(robotsBody, e) = LF)
        /\ lineNum' = lineNum + 1
        /\ events' = events \o es
        /\ IF ParseAndEmitLinePanics(lineBuffer) \/ (es # <<>> /\ EmitPanics(m, es[1]))
           THEN pc' = "panic" /\ UNCHANGED <<m, fresh>>
           ELSE pc' = "lines" /\ m' = EmitAll(m, es) /\ fresh' = EmitAll(fresh, es)
        /\ rpos' = e + 1
        /\ lastWasCarriageReturn' = (At(robotsBody, e) = CR)
        /\ handlerCalls' = handlerCalls \o HandlersOf(es)
        /\ UNCHANGED <<call, robotsBody, result, AllowFrequentTypos, ms, before, app, sitemaps, tasks>>

\* ParseCRLF that counts the LF of a CR LF pair as one more (empty) line
ParseCRLFCounted ==
    LET e == NextLineEnd(robotsBody, rpos)
    IN  /\ pc = "lines"
        /\ e # -1
        /\ e = rpos
        /\ lastWasCarriageReturn /\ At(robotsBody, e) = LF
        /\ rpos' = e + 1
        /\ lineNum' = lineNum + 1
        /\ lastWasCarriageReturn' = FALSE
        /\ UNCHANGED <<m, fresh, pc, call, robotsBody, events, result,
                       AllowFrequentTypos, ms, before, app, sitemaps, tasks, handlerCalls>>

\* The line loop on the LF of a CR LF pair: no line is counted or emitted
ParseCRLF ==
    LET e == NextLineEnd(robotsBody, rpos)
    IN  /\ pc = "lines"
        /\ e # -1
        /\ e = rpos
        /\ lastWasCarriageReturn /\ At(robotsBody, e) = LF
        /\ rpos' = e + 1
        /\ lastWasCarriageReturn' = FALSE
        /\ UNCHANGED <<m, fresh, pc, call, robotsBody, lineNum, events, result,
                       AllowFrequentTypos, ms, before, app, sitemaps, tasks, handlerCalls>>

\* End of input: the last line is emitted, then HandleRobotsEnd
ParseEnd ==
    LET lineBuffer == LineBuffer(robotsBody, rpos, Len(robotsBody))
        es == ParseAndEmitLine(lineNum + 1, lineBuffer)
    IN  /\ pc = "lines"
        /\ NextLineEnd(robotsBody, rpos) = -1
        /\ lineNum' = lineNum + 1
        /\ events' = events \o es
        /\ IF ParseAndEmitLinePanics(lineBuffer) \/ (es # <<>> /\ EmitPanics(m, es[1]))
           THEN pc' = "panic" /\ UNCHANGED <<m, fresh>>
           ELSE /\ pc' = "parsed"
                /\ m' = HandleRobotsEnd(EmitAll(m, es))
                /\ fresh' = HandleRobotsEnd(EmitAll(fresh, es))
        /\ handlerCalls' = handlerCalls \o HandlersOf(es)
                               \o (IF pc' = "parsed" THEN <<"HandleRobotsEnd">> ELSE <<>>)
        /\ rpos' = Len(robotsBody)
        /\ UNCHANGED <<call, robotsBody, lastWasCarriageReturn, result,
                       AllowFrequentTypos, ms, before, app, sitemaps, tasks>>

\* AllowedByRobots returns !m.disallow(); the parser is dropped
Return ==
    /\ pc = "parsed"
    /\ result' = ~disallow(m)
    /\ pc' = "done"
    /\ robotsBody' = <<>>
    /\ rpos' = 0
    /\ lineNum' = 0
    /\ lastWasCarriageReturn' = FALSE
    /\ UNCHANGED <<m, fresh, call, events, AllowFrequentTypos, ms, before, app, sitemaps, tasks, handlerCalls>>

\* One call on a new matcher
Query ==
    /\ pc = "idle"
    /\ \E q \in Queries : AllowedByRobots(q.robotsBody, q.userAgents, q.uri)

Next == Query \/ ParseStart \/ ParseLine \/ ParseCRLF \/ ParseEnd \/ Return

Spec == Init /\ [][Next]_vars

---------------------------------------------------------------------------
(* Calls one after another on the same RobotsMatcher *)

\* the queries made one after another on the same matcher
ReuseQueries == Scenarios

\* the caller has taken the result; the matcher is kept for the next call
Release ==
    /\ pc = "done"
    /\ pc' = "used"
    /\ call' = NoCall
    /\ events' = <<>>
    /\ result' = FALSE
    /\ fresh' = NewRobotsMatcher
    /\ before' = m
    /\ handlerCalls' = <<>>
    /\ UNCHANGED <<m, robotsBody, rpos, lineNum, lastWasCarriageReturn,
                   AllowFrequentTypos, ms, app, sitemaps, tasks>>

\* One call on a matcher that is new or was used before
QueryAgain ==
    /\ pc \in {"idle", "used"}
    /\ \E q \in ReuseQueries : AllowedByRobots(q.robotsBody, q.userAgents, q.uri)

NextReuse ==
    \/ QueryAgain \/ ParseStart \/ ParseLine \/ ParseCRLF \/ ParseEnd \/ Return
    \/ Release

SpecReuse == Init /\ [][NextReuse]_vars

---------------------------------------------------------------------------
(* RobotsMatchStrategy_Matches alone, one pass of its main loop at a time *)

MaxPathLen == 3

MaxPatternLen == 3

\* 'a', 'A', '$' and '*'
MatchBytes == {97, 65, DOLLAR, STAR}

InitMatches ==
    /\ m = NewRobotsMatcher
    /\ fresh = NewRobotsMatcher
    /\ pc = "matches"
    /\ call = NoCall
    /\ InitParserIdle
    /\ events = <<>>
    /\ result = FALSE
    /\ AllowFrequentTypos = TRUE
    /\ before = NewRobotsMatcher
    /\ sitemaps = <<>>
    /\ tasks = NoTasks
    /\ handlerCalls = <<>>
    /\ app = NoApp
    /\ \E path \in SeqsUpTo(MatchBytes, MaxPathLen),
          pattern \in SeqsUpTo(MatchBytes, MaxPatternLen) :
           ms = MatchesInit(path, pattern)

matcherVars == <<m, fresh, pc, call, robotsBody, rpos, lineNum,
                 lastWasCarriageReturn, events, result, AllowFrequentTypos, before,
                 app, sitemaps, tasks, handlerCalls>>

\* the body of the main loop, for pattern[i]
MatchesLoop ==
    /\ pc = "matches"
    /\ ~ms.done
    /\ ms.i < Len(ms.pattern)
    /\ ms' = MatchesStep(ms)
    /\ UNCHANGED matcherVars

\* the end of the pattern is reached: return true
MatchesExit ==
    /\ pc = "matches"
    /\ ~ms.done
    /\ ~(ms.i < Len(ms.pattern))
    /\ ms' = MatchesStep(ms)
    /\ UNCHANGED matcherVars

NextMatches == MatchesLoop \/ MatchesExit

SpecMatches == InitMatches /\ [][NextMatches]_vars

\* the function runs on: nothing but its own return stops the loop
SpecMatchesLive == SpecMatches /\ WF_vars(NextMatches)

---------------------------------------------------------------------------
(* GetPathParamsQuery, MaybeEscapePattern and IsValidUserAgentToObey alone *)

MaxUriLen == 5

MaxEscapeLen == 4

MaxTokenLen == 3

\* '/', ':', '?', '#', ';' and 'a'
UriBytes == {SLASH, COLON, 63, HASH, 59, 97}

\* '%', '2', 'a', 'F', 'g' and the byte 0xE3
EscapeBytes == {PERCENT, 50, 97, 70, 103, 227}

\* 'a', 'Z', '-', '_', '1', '~' and ' '
TokenBytes == {97, 90, 45, 95, 49, 126, SPACE}

\* the tokens of ID_VerifyValidUserAgentsToObey
TestTokens ==
    {Str("Foobot"), Str("Foobot-Bar"), Str("Foo_Bar"), <<227, 131, 132>>,
     Str(" Foobot "), Str("Foobot/2.1"), Str("Foobot Bar"), Str("Foo12bot"),
     Str("Foobot~Bar")}

InitFunctions ==
    /\ m = NewRobotsMatcher
    /\ fresh = NewRobotsMatcher
    /\ pc = "function"
    /\ call = NoCall
    /\ InitParserIdle
    /\ events = <<>>
    /\ result = FALSE
    /\ AllowFrequentTypos = TRUE
    /\ InitMatchesIdle
    /\ before = NewRobotsMatcher
    /\ sitemaps = <<>>
    /\ tasks = NoTasks
    /\ handlerCalls = <<>>
    /\ \/ \E k \in 0..MaxUriLen : \E u \in [1..k -> UriBytes] :
              app = App("GetPathParamsQuery", u)
       \/ \E k \in 0..MaxEscapeLen : \E s \in [1..k -> EscapeBytes] :
              app = App("MaybeEscapePattern", s)
       \/ \E k \in 0..MaxTokenLen : \E t \in [1..k -> TokenBytes] :
              app = App("IsValidUserAgentToObey", t)
       \/ \E t \in TestTokens : app = App("IsValidUserAgentToObey", t)

otherVars == <<m, fresh, pc, call, robotsBody, rpos, lineNum,
               lastWasCarriageReturn, events, result, AllowFrequentTypos, ms,
               before, sitemaps, tasks, handlerCalls>>

\* a call of fn at position at, which finds the argument x
Applying(fn, at) == pc = "function" /\ app.fn = fn /\ app.at = at

ApplyGetPathParamsQuery ==
    /\ Applying("GetPathParamsQuery", "call")
    /\ app' = IF GetPathParamsQueryPanics(app.arg)
              THEN [app EXCEPT !.at = "panic"]
              ELSE [app EXCEPT !.at = "returned",
                               !.ret = GetPathParamsQuery(app.arg)]
    /\ UNCHANGED otherVars

ApplyGetPathParamsQueryAgain ==
    /\ Applying("GetPathParamsQuery", "returned")
    /\ app' = IF GetPathParamsQueryPanics(app.ret)
              THEN [app EXCEPT !.at = "panic"]
              ELSE [app EXCEPT !.at = "returned again",
                               !.ret2 = GetPathParamsQuery(app.ret)]
    /\ UNCHANGED otherVars

ApplyMaybeEscapePattern ==
    /\ Applying("MaybeEscapePattern", "call")
    /\ app' = [app EXCEPT !.at = "returned", !.ret = MaybeEscapePattern(app.arg)]
    /\ UNCHANGED otherVars

ApplyMaybeEscapePatternAgain ==
    /\ Applying("MaybeEscapePattern", "returned")
    /\ app' = [app EXCEPT !.at = "returned again",
                          !.ret2 = MaybeEscapePattern(app.ret)]
    /\ UNCHANGED otherVars

ApplyIsValidUserAgentToObey ==
    /\ Applying("IsValidUserAgentToObey", "call")
    /\ app' = [app EXCEPT !.at = "returned",
                          !.ret = IsValidUserAgentToObey(app.arg)]
    /\ UNCHANGED otherVars

NextFunctions ==
    \/ ApplyGetPathParamsQuery \/ ApplyGetPathParamsQueryAgain
    \/ ApplyMaybeEscapePattern \/ ApplyMaybeEscapePatternAgain
    \/ ApplyIsValidUserAgentToObey

SpecFunctions == InitFunctions /\ [][NextFunctions]_vars

---------------------------------------------------------------------------
(* ParseRobotsTxt alone, on bodies of any bytes *)

MaxBodyLen == 4

\* 'a', ':', ' ', '#', LF and CR
ParseBytes == {97, COLON, SPACE, HASH, LF, CR}

\* lines of ID_LineSyntax_Line, and lines of one, two and three words with
\* and without a colon
ParseLines ==
    {Str("user-agent FooBot"), Str("disallow /"), Str("foo: FooBot"),
     Str("disallow: /"), Str("disallow"), Str("disallow / x"),
     Str("a a a"), Str("  foo  bar  "), <<97, TAB, 97>>, <<97, TAB, SPACE, TAB, 97>>,
     <<97, SPACE, 97, TAB, 97>>, Str("allow /x # y z"), Str("a b:c"),
     Str(": a"), Str("a :"), Str("sitemap http://h/s"), Str("a b # c"),
     Str("a # b"), Str("#a b"),
     <<97, 11, SPACE, 97>>, <<97, SPACE, 11, 97>>, <<97, 11, 97>>,
     <<97, SPACE, 11, SPACE, 97>>, <<97, SPACE, 97, 12, 97>>,
     <<97, SPACE, 97, SPACE, 12, SPACE, 97>>}

\* keys: the names and typos of the source, in the cases of
\* ID_REPLineNamesCaseInsensitive, with something after them, near misses,
\* and keys with U+0130, U+212A and U+017F for 'i', 'k' and 's'
TestKeys ==
    {keyUserAgent, keyUseragent, keyUserSpaceAgent, keyAllow, keyDisallow,
     keyDissallow, keyDissalow, keyDisalow, keyDiasllow, keyDisallaw,
     keySitemap, keySiteMap,
     Str("USER-AGENT"), Str("ALLOW"), Str("DISALLOW"), Str("uSeR-aGeNt"),
     Str("AlLoW"), Str("dIsAlLoW"), Str("SiteMap"), Str("SITE-MAP"),
     Str("UserAgent"), Str("User Agent"), Str("DisAlow"), Str("DISALLAW"),
     Str("user-agents"), Str("allowed"), Str("disallowing"), Str("sitemaps"),
     Str("useragentx"), Str("disalowed"),
     Str("user_agent"), Str("alow"), Str("llow"), Str("xallow"),
     Str("site map"), Str("dis"), Str("disallo"), Str("noindex"),
     Str("d") \o dottedI \o Str("sallow"), Str("s") \o dottedI \o Str("temap"),
     Str("d") \o dottedI \o Str("salow"), longS \o Str("itemap"),
     Str("di") \o longS \o Str("allow"), kelvinSign \o Str("allow")}

keyLineRest == Str(": /x")

\* keys of every type, and values that MaybeEscapePattern changes
EscapeKeys == {keyUserAgent, keyAllow, keyDisallow, keyDisalow, keySitemap, Str("host")}

valueLowerEscape == Str("/x%aa")

valueHighByte == Str("/x") \o <<227>>

EscapeValues == {valueLowerEscape, valueHighByte, Str("/%2f*$")}

InitParse ==
    /\ m = InitUserAgentsAndPath(NewRobotsMatcher, <<agentFoo>>, uriX)
    /\ fresh = m
    /\ pc = "start"
    /\ \/ \E k \in 0..MaxBodyLen : \E body \in [1..k -> ParseBytes] :
              call = Q(body, <<agentFoo>>, uriX)
       \/ \E line \in ParseLines : \E eol \in {<<>>, <<LF>>} :
              call = Q(line \o eol, <<agentFoo>>, uriX)
       \/ \E key \in TestKeys : call = Q(key \o keyLineRest, <<agentFoo>>, uriX)
       \/ \E key \in EscapeKeys, sep \in {<<COLON>>, <<SPACE>>, <<COLON, SPACE>>},
             value \in EscapeValues, rest \in {<<>>, <<SPACE, HASH, 97>>} :
              call = Q(key \o sep \o value \o rest, <<agentFoo>>, uriX)
    /\ robotsBody = call.robotsBody
    /\ rpos = 0
    /\ lineNum = 0
    /\ lastWasCarriageReturn = FALSE
    /\ events = <<>>
    /\ result = FALSE
    /\ AllowFrequentTypos \in BOOLEAN
    /\ InitMatchesIdle
    /\ before = NewRobotsMatcher
    /\ sitemaps = <<>>
    /\ tasks = NoTasks
    /\ handlerCalls = <<>>
    /\ app = NoApp

NextParse == ParseStart \/ ParseLine \/ ParseCRLF \/ ParseEnd

SpecParse == InitParse /\ [][NextParse]_vars

\* Parse is one sequential loop, and the call goes on until it returns:
\* while it has not returned, a step is taken that moves on in the function
\* (to the line loop, or out of it) or in the body.  Every step of NextParse
\* is such a step, and one of them is possible whenever pc is "start" or
\* "lines".
Goes ==
    /\ pc \in {"start", "lines"}
    /\ pc' \in {"lines", "parsed", "panic"}
    /\ rpos' \in rpos..Len(robotsBody)

SpecParseLive == SpecParse /\ WF_<<pc, rpos>>(Goes)

---------------------------------------------------------------------------
(* sitemapExtractor: Sitemaps(robotsBody) *)

\* HandleRobotsStart that keeps the list
sitemapExtractorKeep(list) == list

\* sitemapExtractor.HandleRobotsStart
sitemapExtractorHandleRobotsStart(list) == <<>>

\* sitemapExtractor.HandleSitemap
sitemapExtractorHandleSitemap(list, value) == Append(list, value)

\* the calls of a line made on the extractor: all but HandleSitemap do
\* nothing
sitemapExtractorEmitAll(list, es) ==
    IF es # <<>> /\ es[1].kind = "Sitemap"
    THEN sitemapExtractorHandleSitemap(list, es[1].value)
    ELSE list

\* a value that the pattern canonicaliser would change
sitemapA == Str("sitemap: http://h/%aa")

sitemapB == Str("Site-Map:http://h/b*$  # b")

sitemapC == Str("SITEMAPS http://h/c")

sitemapNot == Str("#sitemap: http://h/d")

sitemapOld == Str("http://h/old")

SitemapLines == {sitemapA, sitemapB, sitemapC, sitemapNot, uaStar, disallowXSlash}

\* an extractor that is new, or was used on a body before
InitSitemaps ==
    /\ m = NewRobotsMatcher
    /\ fresh = NewRobotsMatcher
    /\ pc = "idle"
    /\ call = NoCall
    /\ InitParserIdle
    /\ events = <<>>
    /\ result = FALSE
    /\ AllowFrequentTypos = TRUE
    /\ InitMatchesIdle
    /\ before = NewRobotsMatcher
    /\ app = NoApp
    /\ sitemaps \in {<<>>, <<sitemapOld>>}
    /\ tasks = NoTasks
    /\ handlerCalls = <<>>

\* Sitemaps up to the loop of Parse: the parser is built on the body
SitemapsCall ==
    /\ pc = "idle"
    /\ \E k \in 1..MaxLines : \E ls \in [1..k -> SitemapLines] :
       \E eol \in {<<LF>>, <<CR, LF>>} :
           /\ call' = Q(Join(ls, eol), <<>>, <<>>)
           /\ robotsBody' = Join(ls, eol)
    /\ rpos' = 0
    /\ lineNum' = 0
    /\ lastWasCarriageReturn' = FALSE
    /\ events' = <<>>
    /\ pc' = "start"
    /\ handlerCalls' = <<>>
    /\ UNCHANGED <<m, fresh, result, AllowFrequentTypos, ms, before, app, sitemaps, tasks>>

\* Parse up to the line loop, with the extractor as the handler
ExtractStart ==
    /\ pc = "start"
    /\ sitemaps' = sitemapExtractorHandleRobotsStart(sitemaps)
    /\ rpos' = SkipBOM(robotsBody)
    /\ lineNum' = 0
    /\ lastWasCarriageReturn' = FALSE
    /\ pc' = "lines"
    /\ handlerCalls' = Append(handlerCalls, "HandleRobotsStart")
    /\ UNCHANGED <<m, fresh, call, robotsBody, events, result, AllowFrequentTypos, ms,
                   before, app, tasks>>

\* the line loop up to and including a byte that ends a line
ExtractLine ==
    LET e == NextLineEnd(robotsBody, rpos)
        lineBuffer == LineBuffer(robotsBody, rpos, e)
        es == ParseAndEmitLine(lineNum + 1, lineBuffer)
    IN  /\ pc = "lines"
        /\ e # -1
        /\ ~(Len(lineBuffer) = 0 /\ lastWasCarriageReturn /\ At(robotsBody, e) = LF)
        /\ lineNum' = lineNum + 1
        /\ events' = events \o es
        /\ IF ParseAndEmitLinePanics(lineBuffer)
           THEN pc' = "panic" /\ UNCHANGED sitemaps
           ELSE pc' = "lines" /\ sitemaps' = sitemapExtractorEmitAll(sitemaps, es)
        /\ rpos' = e + 1
        /\ lastWasCarriageReturn' = (At(robotsBody, e) = CR)
        /\ handlerCalls' = handlerCalls \o HandlersOf(es)
        /\ UNCHANGED <<m, fresh, call, robotsBody, result, AllowFrequentTypos, ms,
                       before, app, tasks>>

\* end of input: the last line, then HandleRobotsEnd, which does nothing
ExtractEnd ==
    LET lineBuffer == LineBuffer(robotsBody, rpos, Len(robotsBody))
        es == ParseAndEmitLine(lineNum + 1, lineBuffer)
    IN  /\ pc = "lines"
        /\ NextLineEnd(robotsBody, rpos) = -1
        /\ lineNum' = lineNum + 1
        /\ events' = events \o es
        /\ IF ParseAndEmitLinePanics(lineBuffer)
           THEN pc' = "panic" /\ UNCHANGED sitemaps
           ELSE pc' = "parsed" /\ sitemaps' = sitemapExtractorEmitAll(sitemaps, es)
        /\ rpos' = Len(robotsBody)
        /\ handlerCalls' = handlerCalls \o HandlersOf(es)
                               \o (IF pc' = "parsed" THEN <<"HandleRobotsEnd">> ELSE <<>>)
        /\ UNCHANGED <<m, fresh, call, robotsBody, lastWasCarriageReturn, result,
                       AllowFrequentTypos, ms, before, app, tasks>>

\* Sitemaps returns f.sitemaps
SitemapsReturn ==
    /\ pc = "parsed"
    /\ pc' = "returned"
    /\ UNCHANGED <<m, fresh, call, robotsBody, rpos, lineNum, lastWasCarriageReturn,
                   events, result, AllowFrequentTypos, ms, before, app, sitemaps, tasks, handlerCalls>>

NextSitemaps ==
    SitemapsCall \/ ExtractStart \/ ExtractLine \/ ParseCRLF \/ ExtractEnd
        \/ SitemapsReturn

SpecSitemaps == InitSitemaps /\ [][NextSitemaps]_vars

---------------------------------------------------------------------------
(* Bodies with Sitemap lines and lines of unknown keys among the others *)

crawlDelay == Str("crawl-delay: 1")

\* lines that are neither agent lines nor rules
NoiseLines == {sitemapA, crawlDelay}

RuleLines == {uaStar, uaFooBar, disallowXSlash, allowX}

\* One call for foo on /x/, on a body of up to MaxLines + 1 lines
QueryNoise ==
    /\ pc = "idle"
    /\ \E k \in 0..(MaxLines + 1) : \E ls \in [1..k -> RuleLines \cup NoiseLines] :
           AllowedByRobots(Join(ls, <<LF>>), <<agentFoo>>, uriXSlash)

NextNoise == QueryNoise \/ ParseStart \/ ParseLine \/ ParseEnd \/ Return

SpecNoise == Init /\ [][NextNoise]_vars

---------------------------------------------------------------------------
(* The handler methods of RobotsMatcher, called in any order *)

MaxEvents == 4

agentStar == Str("*")

\* values of User-agent lines: every crawler, the caller in another case
\* and with a version, another crawler, none
AgentValues == {agentStar, Str("* x"), Str("FOO/1"), agentBar, <<>>}

\* values of rules for the path /x/: matching, matching after the
\* index.htm rewrite, not matching, empty
RuleValues == {Str("/x"), Str("/x/"), Str("/x/index.html"), Str("/y"), <<>>}

\* values of allow rules that name an index page, for the path /x/: of its
\* directory, of another, of a directory named index.htm, with a '$', with
\* a '*' that makes the rewritten pattern fail
IndexValues ==
    {Str("/y/index.html"), Str("/index.htm/index.htmx"), Str("/x/index.htm$"),
     Str("/x/*a/index.html"), Str("index.htm/index.htm")}

InitHandlers ==
    /\ m = InitUserAgentsAndPath(NewRobotsMatcher, <<agentFoo>>, Str("/x/"))
    /\ fresh = NewRobotsMatcher
    /\ pc = "handlers"
    /\ call = NoCall
    /\ InitParserIdle
    /\ events = <<>>
    /\ result = FALSE
    /\ AllowFrequentTypos = TRUE
    /\ InitMatchesIdle
    /\ before = NewRobotsMatcher
    /\ sitemaps = <<>>
    /\ tasks = NoTasks
    /\ handlerCalls = <<>>
    /\ app = NoApp

\* a directive e is handed to its handler method, which leaves the matcher
\* as mm or panics
Called(e, mm, panics) ==
    /\ pc \in {"handlers", "started"}
    /\ lineNum < MaxEvents
    /\ lineNum' = lineNum + 1
    /\ before' = m
    /\ events' = <<e>>
    /\ handlerCalls' = Append(handlerCalls, HandlerOf(e.kind))
    /\ IF panics THEN pc' = "panic" /\ UNCHANGED m
       ELSE m' = mm /\ UNCHANGED pc
    /\ UNCHANGED <<fresh, call, robotsBody, rpos, lastWasCarriageReturn, result,
                   AllowFrequentTypos, ms, app, sitemaps, tasks>>

\* the directive of the next line
Directive(kind, action, value) ==
    [kind |-> kind, line |-> lineNum + 1, action |-> action, value |-> value]

CallRobotsStart ==
    /\ pc \in {"handlers", "started"}
    /\ lineNum < MaxEvents
    /\ lineNum' = lineNum + 1
    /\ before' = m
    /\ m' = HandleRobotsStart(m)
    /\ pc' = "started"
    /\ events' = <<>>
    /\ handlerCalls' = Append(handlerCalls, "HandleRobotsStart")
    /\ UNCHANGED <<fresh, call, robotsBody, rpos, lastWasCarriageReturn, result,
                   AllowFrequentTypos, ms, app, sitemaps, tasks>>

CallUserAgent ==
    \E v \in AgentValues :
        Called(Directive("UserAgent", keyUserAgent, v),
               HandleUserAgent(m, lineNum + 1, v), FALSE)

CallAllow ==
    \E v \in RuleValues \cup IndexValues :
        Called(Directive("Allow", keyAllow, v),
               HandleAllow(m, lineNum + 1, v), HandleAllowPanics(m, v))

CallDisallow ==
    \E v \in RuleValues :
        Called(Directive("Disallow", keyDisallow, v),
               HandleDisallow(m, lineNum + 1, v), HandleDisallowPanics(m, v))

CallSitemap ==
    Called(Directive("Sitemap", keySitemap, sitemapOld),
           HandleSitemap(m, lineNum + 1, sitemapOld), FALSE)

CallUnknownAction ==
    Called(Directive("Unknown", Str("host"), Str("h")),
           HandleUnknownAction(m, lineNum + 1, Str("host"), Str("h")), FALSE)

CallRobotsEnd ==
    /\ pc \in {"handlers", "started"}
    /\ lineNum < MaxEvents
    /\ lineNum' = lineNum + 1
    /\ before' = m
    /\ m' = HandleRobotsEnd(m)
    /\ events' = <<>>
    /\ handlerCalls' = Append(handlerCalls, "HandleRobotsEnd")
    /\ UNCHANGED <<fresh, pc, call, robotsBody, rpos, lastWasCarriageReturn, result,
                   AllowFrequentTypos, ms, app, sitemaps, tasks>>

NextHandlers ==
    \/ CallRobotsStart \/ CallUserAgent \/ CallAllow \/ CallDisallow
    \/ CallSitemap \/ CallUnknownAction \/ CallRobotsEnd

SpecHandlers == InitHandlers /\ [][NextHandlers]_vars

---------------------------------------------------------------------------
(* Two callers at once, on one RobotsMatcher or on one each *)

\* MatcherOf with one matcher for both callers in any case
MatcherOfBoth(shared, i) == 1

\* the matcher that caller i uses
MatcherOf(shared, i) == IF shared THEN 1 ELSE i

ConcurrentQueries ==
    {Q(Join(<<uaFooBar, disallowXSlash>>, <<LF>>), <<agentFoo>>, uriXSlash),
     Q(Join(<<uaStar, allowX>>, <<CR, LF>>), <<agentBar>>, uriX),
     Q(Join(<<uaStar, disallowStar, uaBar>>, <<LF>>), <<agentBar>>, uriXSlash),
     Q(<<>>, <<agentFoo>>, uriX)}

InitConcurrent ==
    /\ m = NewRobotsMatcher
    /\ fresh = NewRobotsMatcher
    /\ pc = "idle"
    /\ call = NoCall
    /\ InitParserIdle
    /\ events = <<>>
    /\ result = FALSE
    /\ AllowFrequentTypos = TRUE
    /\ InitMatchesIdle
    /\ before = NewRobotsMatcher
    /\ app = NoApp
    /\ sitemaps = <<>>
    /\ handlerCalls = <<>>
    /\ \E shared \in BOOLEAN, q1 \in ConcurrentQueries, q2 \in ConcurrentQueries :
           tasks = [shared |-> shared,
                    matcher |-> <<NewRobotsMatcher, NewRobotsMatcher>>,
                    task |-> <<Task(q1), Task(q2)>>]

notTasks == <<m, fresh, pc, call, robotsBody, rpos, lineNum, lastWasCarriageReturn,
              events, result, AllowFrequentTypos, ms, before, app, sitemaps,
              handlerCalls>>

\* caller i goes on: its matcher becomes mm and its own fields become t
TaskStep(i, mm, t) ==
    /\ tasks' = [tasks EXCEPT !.matcher[MatcherOf(tasks.shared, i)] = mm,
                              !.task[i] = t]
    /\ UNCHANGED notTasks

\* AllowedByRobots up to the call of ParseRobotsTxt
TaskInstall(i) ==
    LET t == tasks.task[i]
        mm == tasks.matcher[MatcherOf(tasks.shared, i)]
        path == GetPathParamsQuery(t.call.uri)
    IN  /\ t.pc = "idle"
        /\ IF InitPanics(path)
           THEN TaskStep(i, [mm EXCEPT !.path = path], [t EXCEPT !.pc = "panic"])
           ELSE TaskStep(i, InitUserAgentsAndPath(mm, t.call.userAgents, path),
                         [t EXCEPT !.pc = "start"])

\* Parse up to the line loop
TaskStart(i) ==
    LET t == tasks.task[i]
        mm == tasks.matcher[MatcherOf(tasks.shared, i)]
    IN  /\ t.pc = "start"
        /\ TaskStep(i, HandleRobotsStart(mm),
                    [t EXCEPT !.pc = "lines", !.rpos = SkipBOM(t.call.robotsBody),
                              !.lineNum = 0, !.lastWasCarriageReturn = FALSE])

\* the line loop up to and including a byte that ends a line
TaskLine(i) ==
    LET t == tasks.task[i]
        mm == tasks.matcher[MatcherOf(tasks.shared, i)]
        body == t.call.robotsBody
        e == NextLineEnd(body, t.rpos)
        lineBuffer == LineBuffer(body, t.rpos, e)
        es == ParseAndEmitLine(t.lineNum + 1, lineBuffer)
        t1 == [t EXCEPT !.lineNum = t.lineNum + 1, !.rpos = e + 1,
                        !.lastWasCarriageReturn = (At(body, e) = CR)]
    IN  /\ t.pc = "lines"
        /\ e # -1
        /\ ~(Len(lineBuffer) = 0 /\ t.lastWasCarriageReturn /\ At(body, e) = LF)
        /\ IF ParseAndEmitLinePanics(lineBuffer) \/ (es # <<>> /\ EmitPanics(mm, es[1]))
           THEN TaskStep(i, mm, [t1 EXCEPT !.pc = "panic"])
           ELSE TaskStep(i, EmitAll(mm, es), t1)

\* the line loop on the LF of a CR LF pair
TaskCRLF(i) ==
    LET t == tasks.task[i]
        mm == tasks.matcher[MatcherOf(tasks.shared, i)]
        body == t.call.robotsBody
        e == NextLineEnd(body, t.rpos)
    IN  /\ t.pc = "lines"
        /\ e # -1
        /\ e = t.rpos
        /\ t.lastWasCarriageReturn /\ At(body, e) = LF
        /\ TaskStep(i, mm, [t EXCEPT !.rpos = e + 1, !.lastWasCarriageReturn = FALSE])

\* end of input: the last line, then HandleRobotsEnd
TaskEnd(i) ==
    LET t == tasks.task[i]
        mm == tasks.matcher[MatcherOf(tasks.shared, i)]
        body == t.call.robotsBody
        lineBuffer == LineBuffer(body, t.rpos, Len(body))
        es == ParseAndEmitLine(t.lineNum + 1, lineBuffer)
        t1 == [t EXCEPT !.lineNum = t.lineNum + 1, !.rpos = Len(body)]
    IN  /\ t.pc = "lines"
        /\ NextLineEnd(body, t.rpos) = -1
        /\ IF ParseAndEmitLinePanics(lineBuffer) \/ (es # <<>> /\ EmitPanics(mm, es[1]))
           THEN TaskStep(i, mm, [t1 EXCEPT !.pc = "panic"])
           ELSE TaskStep(i, HandleRobotsEnd(EmitAll(mm, es)), [t1 EXCEPT !.pc = "parsed"])

\* AllowedByRobots returns !m.disallow()
TaskReturn(i) ==
    LET t == tasks.task[i]
        mm == tasks.matcher[MatcherOf(tasks.shared, i)]
    IN  /\ t.pc = "parsed"
        /\ TaskStep(i, mm, [t EXCEPT !.pc = "done", !.result = ~disallow(mm)])

NextConcurrent ==
    \E i \in {1, 2} :
        \/ TaskInstall(i)
        \/ TaskStart(i)
        \/ TaskLine(i)
        \/ TaskCRLF(i)
        \/ TaskEnd(i)
        \/ TaskReturn(i)

SpecConcurrent == InitConcurrent /\ [][NextConcurrent]_vars

---------------------------------------------------------------------------
(* The pattern matcher against a reference glob matcher *)

\* The reference: the pattern is anchored at the start of the path only,
\* '*' stands for any run of bytes, a final '$' for the end of the path,
\* and every other byte, '$' elsewhere included, for itself
RECURSIVE GlobMatches(_, _)
GlobMatches(path, pattern) ==
    IF pattern = <<>> THEN TRUE
    ELSE IF Head(pattern) = STAR
    THEN \E k \in 0..Len(path) :
            GlobMatches(SubSeq(path, k + 1, Len(path)), Tail(pattern))
    ELSE IF Head(pattern) = DOLLAR /\ Len(pattern) = 1
    THEN path = <<>>
    ELSE /\ path # <<>>
         /\ Head(path) = Head(pattern)
         /\ GlobMatches(Tail(path), Tail(pattern))

EndsInDollar(pattern) == pattern # <<>> /\ pattern[Len(pattern)] = DOLLAR

\* C7: RobotsMatchStrategy_Matches(path, pattern) returns what the reference
\* glob matcher returns: anchored at the start only, '*' any run of bytes,
\* a final '$' the end of the path, '$' elsewhere and every other byte
\* literal and case-sensitive.  The empty pattern matches every path, and a
\* pattern that does not end in '$' matches the same paths with a '*'
\* appended.
C7_MatchesIsGlob ==
    (pc = "matches" /\ ms.done) =>
        /\ ms.ret = GlobMatches(ms.path, ms.pattern)
        /\ (ms.pattern = <<>> => ms.ret)
        /\ (~EndsInDollar(ms.pattern) =>
               RobotsMatchStrategy_Matches(ms.path, ms.pattern \o <<STAR>>) = ms.ret)

\* a match of "a$*$" style patterns is decided: a literal '$' inside the
\* pattern, a '*' and the final '$' all took part
C7_Witness ==
    /\ pc = "matches" /\ ms.done /\ ms.ret
    /\ Len(ms.pattern) = 3
    /\ ms.pattern[1] = DOLLAR /\ ms.pattern[2] = STAR /\ ms.pattern[3] = DOLLAR
    /\ Len(ms.path) = 3

---------------------------------------------------------------------------
(* The groups of a robots.txt body, read off the handler calls of a parse *)

IsRule(e) == e.kind \in {"Allow", "Disallow"}

IsAgentLine(e) == e.kind = "UserAgent"

Front(es) == SubSeq(es, 1, Len(es) - 1)

Last(es) == es[Len(es)]

\* the parse run is past HandleRobotsStart
Parsing == pc \in {"lines", "parsed", "done"}

\* the step handled one more directive, without a panic
Handled == Len(events') = Len(events) + 1 /\ pc' # "panic"

\* a user-agent value that stands for every crawler: '*' alone, or '*' and
\* then white space
GlobalLine(v) ==
    \/ v = <<STAR>>
    \/ Len(v) > 1 /\ v[1] = STAR /\ isSpace(v[2])

\* the longest prefix of v made of bytes in [A-Za-z_-]
AgentToken(v) ==
    LET K == {k \in 0..Len(v) :
                 \A j \in 1..k : asciiIsAlpha(v[j]) \/ v[j] = 45 \/ v[j] = 95}
    IN  SubSeq(v, 1, Max(K))

\* the token of v equals one of agents, ignoring the case of ASCII letters
NamesAsciiCase(v, agents) ==
    \E k \in 1..Len(agents) : AsciiLower(AgentToken(v)) = AsciiLower(agents[k])

\* the token of v equals one of agents under Unicode simple case folding
NamesFolded(v, agents) ==
    \E k \in 1..Len(agents) : FoldRunes(AgentToken(v)) = FoldRunes(agents[k])

\* v is a user-agent value that names the caller
NamesCaller(v, agents) == ~GlobalLine(v) /\ NamesFolded(v, agents)

\* The user-agent lines of the group in progress after es: those with no
\* rule after them that is itself followed by a user-agent line
GroupAgents(es) ==
    {j \in 1..Len(es) :
        /\ IsAgentLine(es[j])
        /\ ~\E r \in (j + 1)..Len(es), u \in (j + 2)..Len(es) :
               r < u /\ IsRule(es[r]) /\ IsAgentLine(es[u])}

GroupIsGlobal(es) == \E j \in GroupAgents(es) : GlobalLine(es[j].value)

GroupIsSpecific(es, agents) ==
    \E j \in GroupAgents(es) : NamesCaller(es[j].value, agents)

\* where a rule that comes right after es is recorded
Scope(es, agents) ==
    IF GroupIsSpecific(es, agents) THEN "specific"
    ELSE IF GroupIsGlobal(es) THEN "global"
    ELSE "none"

\* the rules of es recorded under scope
RulesIn(es, agents, scope) ==
    {k \in 1..Len(es) :
        IsRule(es[k]) /\ Scope(SubSeq(es, 1, k - 1), agents) = scope}

\* some user-agent line of es names the caller
Named(es, agents) ==
    \E k \in 1..Len(es) : IsAgentLine(es[k]) /\ NamesCaller(es[k].value, agents)

\* the scope whose rules decide the verdict
DecidingScope(es, agents) == IF Named(es, agents) THEN "specific" ELSE "global"

---------------------------------------------------------------------------
(* The empty robots body *)

\* C3: on the empty robots body AllowedByRobots returns "allowed" for every
\* agent list and every URI; the parse makes no directive call, and the four
\* scores are at priority -1 when the parse ends.
C3_EmptyBodyAllowed ==
    (pc \in {"parsed", "done"} /\ call.robotsBody = <<>>) =>
        /\ pc = "done" => result
        /\ events = <<>>
        /\ m.allowMatch.global.priority = -1
        /\ m.allowMatch.specific.priority = -1
        /\ m.disallowMatch.global.priority = -1
        /\ m.disallowMatch.specific.priority = -1

C3_Witness ==
    /\ pc = "done"
    /\ call.robotsBody = <<>>
    /\ call.userAgents = <<agentFoo>>
    /\ call.uri = uriX
    /\ result

---------------------------------------------------------------------------
(* The empty user-agent *)

\* C10: a query whose single user-agent is the empty string returns
\* "allowed", for every robots body and every URI.
C10_EmptyAgentAllowed ==
    (pc = "done" /\ call.userAgents = <<<<>>>>) => result

---------------------------------------------------------------------------
(* User-agent lines *)

\* the handler call the step made was HandleUserAgent
AgentLineHandled == Handled /\ IsAgentLine(Last(events'))

\* the flags after HandleUserAgent when the line does not name the caller
NotTakenAsCaller ==
    /\ m'.everSeenSpecificAgent = m.everSeenSpecificAgent
    /\ m'.seenSpecificAgent = (m.seenSpecificAgent /\ ~m.seenSeparator)

\* the flags after HandleUserAgent when the line names the caller
TakenAsCaller == m'.seenSpecificAgent /\ m'.everSeenSpecificAgent

\* C9 as stated: a user-agent line is taken as naming the caller iff the
\* longest [A-Za-z_-] prefix of its value equals one of the caller's agents
\* ignoring ASCII case; on a match seenSpecificAgent and
\* everSeenSpecificAgent are set.
C9_AsStated ==
    [][AgentLineHandled =>
          IF NamesAsciiCase(Last(events').value, m.userAgents)
          THEN TakenAsCaller
          ELSE NotTakenAsCaller]_vars

\* C9: a user-agent line is taken as naming the caller iff its value is not
\* a global line ('*' alone or '*' and then white space) and the longest
\* [A-Za-z_-] prefix of its value equals one of the caller's agents under
\* Unicode simple case folding (ASCII case, and also KELVIN SIGN for k and
\* LONG S for s); the bytes after the prefix are ignored; on a match
\* seenSpecificAgent and everSeenSpecificAgent are set, and otherwise the
\* line sets neither.
C9_UserAgentMatching ==
    [][AgentLineHandled =>
          IF NamesCaller(Last(events').value, m.userAgents)
          THEN TakenAsCaller
          ELSE NotTakenAsCaller]_vars

\* "User-Agent: FOO bar" was taken as naming the caller "foo"
C9_Witness ==
    /\ pc = "lines"
    /\ events # <<>>
    /\ IsAgentLine(Last(events))
    /\ Last(events).value = Str("FOO bar")
    /\ m.userAgents = <<agentFoo>>
    /\ m.seenSpecificAgent /\ m.everSeenSpecificAgent

---------------------------------------------------------------------------
(* Rules outside groups *)

\* the handler call the step made was HandleAllow or HandleDisallow
RuleHandled == Handled /\ IsRule(Last(events'))

\* C5: an allow or disallow call that arrives before the first user-agent
\* line, or in a group whose user-agent lines name neither every crawler nor
\* the caller, leaves the matcher as it was: every score and every flag,
\* seenSeparator included.
C5_RulesOutsideGroupsIgnored ==
    [][(RuleHandled /\ Scope(events, m.userAgents) = "none") => m' = m]_vars

\* a rule was handled in a group that names another crawler only
C5_Witness ==
    /\ pc = "lines"
    /\ Len(events) = 2
    /\ IsAgentLine(events[1])
    /\ events[2].kind = "Disallow"
    /\ GetPathParamsQuery(call.uri) = Str("/x/")
    /\ events[2].value = Str("/x/")
    /\ Scope(Front(events), m.userAgents) = "none"
    /\ ~m.seenSeparator
    /\ m.disallowMatch.specific.priority = -1
    /\ m.disallowMatch.global.priority = -1

---------------------------------------------------------------------------
(* Scores, read off the handler calls of a parse *)

\* the value of an allow rule stands for a directory: the part from its last
\* '/' on begins with "/index.htm"
NamesIndexPage(v) ==
    \E s \in 1..Len(v) :
        /\ v[s] = SLASH
        /\ \A j \in (s + 1)..Len(v) : v[j] # SLASH
        /\ Len(v) >= s + Len(indexHtm) - 1
        /\ SubSeq(v, s, s + Len(indexHtm) - 1) = indexHtm

\* the value up to and including its last '/'
Directory(v) == SubSeq(v, 1, Max({s \in 1..Len(v) : v[s] = SLASH}))

\* the priority a rule earns on path: the length of its pattern when the
\* pattern matches, for an allow rule naming an index page the length of
\* "<directory>$" when that matches, and -1 when nothing matches
RulePriority(path, e) ==
    IF GlobMatches(path, e.value) THEN Len(e.value)
    ELSE IF /\ e.kind = "Allow"
            /\ NamesIndexPage(e.value)
            /\ GlobMatches(path, Directory(e.value) \o <<DOLLAR>>)
    THEN Len(Directory(e.value)) + 1
    ELSE -1

\* the best priority among the rules of one kind recorded under scope
Score(es, agents, path, kind, scope) ==
    Max({-1} \cup {RulePriority(path, es[k]) :
                      k \in {r \in RulesIn(es, agents, scope) : es[r].kind = kind}})

\* disallowed, by the scores of one scope: some disallow rule matches with a
\* priority above 0 and above that of every allow rule
ScopeDisallows(es, agents, path, scope) ==
    LET ds == Score(es, agents, path, "Disallow", scope)
        as == Score(es, agents, path, "Allow", scope)
    IN  ds > 0 /\ ds > as

---------------------------------------------------------------------------
(* Groups *)

\* C6: a user-agent line that follows an accepted rule of the group in
\* progress starts a new group: seenSpecificAgent, seenGlobalAgent and
\* seenSeparator are cleared before the line is evaluated; user-agent lines
\* with no accepted rule between them accumulate, so the rules that follow
\* apply to every agent named in the run; the scores are left alone by
\* user-agent lines, and the rules of all groups that apply to the caller
\* are combined into one set of scores.
C6_GroupBoundaries ==
    /\ [][AgentLineHandled =>
            LET v == Last(events').value
                old == ~m.seenSeparator
            IN  /\ m'.seenGlobalAgent = ((old /\ m.seenGlobalAgent) \/ GlobalLine(v))
                /\ m'.seenSpecificAgent =
                       ((old /\ m.seenSpecificAgent) \/ NamesCaller(v, m.userAgents))
                /\ ~m'.seenSeparator
                /\ m'.allowMatch = m.allowMatch
                /\ m'.disallowMatch = m.disallowMatch]_vars
    /\ [][RuleHandled => m'.seenSeparator = seenAnyAgent(m)]_vars
    /\ [](Parsing =>
            /\ m.seenGlobalAgent = GroupIsGlobal(events)
            /\ m.seenSpecificAgent = GroupIsSpecific(events, m.userAgents)
            /\ \A scope \in {"global", "specific"} :
                  /\ m.allowMatch[scope].priority =
                         Score(events, m.userAgents, m.path, "Allow", scope)
                  /\ m.disallowMatch[scope].priority =
                         Score(events, m.userAgents, m.path, "Disallow", scope))

\* the rule of a second group that applies to the caller was added to the
\* score of the first, after a group for another crawler in between
C6_Witness ==
    /\ pc = "done"
    /\ m.userAgents = <<agentFoo>>
    /\ \E a, b, c \in 1..Len(events) :
          /\ a < b /\ b < c
          /\ events[a].kind = "Allow"
          /\ Scope(SubSeq(events, 1, a - 1), m.userAgents) = "specific"
          /\ IsAgentLine(events[b])
          /\ Scope(SubSeq(events, 1, b), m.userAgents) = "none"
          /\ events[c].kind = "Disallow"
          /\ Scope(SubSeq(events, 1, c - 1), m.userAgents) = "specific"
          /\ m.allowMatch.specific.line = events[a].line
          /\ m.disallowMatch.specific.line = events[c].line

---------------------------------------------------------------------------
(* index.htm and index.html *)

\* the score an accepted rule is recorded under
ScoreField(mm) == IF mm.seenSpecificAgent THEN "specific" ELSE "global"

\* C8: when an allow value V inside an applicable group does not match the
\* path and the part of V from its last '/' on begins with "/index.htm", the
\* matcher is updated exactly as if the rule had been "allow: D$", D being V
\* up to and including its last '/': the allow score rises to lastSlash + 2
\* when the path equals D, unless it is higher already.  When V itself
\* matches the path no rewrite happens: the allow score rises to len(V).
\* A disallow value that does not match is never rewritten: it changes no
\* score.
C8_IndexHtmNormalisation ==
    [][(RuleHandled /\ seenAnyAgent(m)) =>
          LET e == Last(events')
              V == e.value
              f == ScoreField(m)
              old == m.allowMatch[f].priority
          IN  /\ (e.kind = "Allow" /\ ~GlobMatches(m.path, V) /\ NamesIndexPage(V)) =>
                    /\ m' = HandleAllow(m, e.line, Directory(V) \o <<DOLLAR>>)
                    /\ m.path = Directory(V) =>
                           m'.allowMatch[f].priority = Max({old, Len(Directory(V)) + 1})
                    /\ m.path # Directory(V) /\ STAR \notin {V[i] : i \in 1..Len(V)} =>
                           m'.allowMatch[f].priority = old
              /\ (e.kind = "Allow" /\ GlobMatches(m.path, V)) =>
                    m'.allowMatch[f].priority = Max({old, Len(V)})
              /\ (e.kind = "Disallow" /\ ~GlobMatches(m.path, V)) =>
                    /\ m'.allowMatch = m.allowMatch
                    /\ m'.disallowMatch = m.disallowMatch]_vars

\* "allow: /x/index.html" was recorded for the path "/x/" with the priority
\* of "/x/$"
C8_Witness ==
    /\ pc = "lines"
    /\ events # <<>>
    /\ Last(events).kind = "Allow"
    /\ Last(events).value = Str("/x/index.html")
    /\ m.path = Str("/x/")
    /\ m.allowMatch.global.priority = 4
    /\ m.allowMatch.global.line = Last(events).line

---------------------------------------------------------------------------
(* The verdict *)

\* C2: when some user-agent line of the body names one of the caller's
\* agents (and exactly then everSeenSpecificAgent is set at the end of the
\* parse), the verdict is decided by the rules recorded for the caller
\* alone: "disallowed" iff the specific disallow priority is above 0 and
\* above the specific allow priority.  The rules of 'User-agent: *' groups
\* decide, in the same way, only when no line names the caller.
C2_SpecificOverridesGlobal ==
    pc = "done" =>
        LET named == Named(events, m.userAgents)
        IN  /\ m.everSeenSpecificAgent = named
            /\ named =>
                  result = ~ScopeDisallows(events, m.userAgents, m.path, "specific")
            /\ ~named =>
                  result = ~ScopeDisallows(events, m.userAgents, m.path, "global")

\* allowed by the caller's own group although the global group disallows
C2_Witness ==
    /\ pc = "done"
    /\ Named(events, m.userAgents)
    /\ ScopeDisallows(events, m.userAgents, m.path, "global")
    /\ RulesIn(events, m.userAgents, "specific") # {}
    /\ result

\* the one group that applies to the caller holds the allow rule a and the
\* disallow rule d and nothing else, and both patterns match the path
OneGroupTwoRules(a, d) ==
    LET scope == DecidingScope(events, m.userAgents)
        first == IF a < d THEN a ELSE d
        applies(v) == IF scope = "specific" THEN NamesCaller(v, m.userAgents)
                      ELSE GlobalLine(v)
    IN  /\ RulesIn(events, m.userAgents, scope) = {a, d}
        /\ events[a].kind = "Allow"
        /\ events[d].kind = "Disallow"
        /\ \A u \in 1..Len(events) :
              (IsAgentLine(events[u]) /\ applies(events[u].value)) =>
                  u \in GroupAgents(SubSeq(events, 1, first - 1))
        /\ GlobMatches(m.path, events[a].value)
        /\ GlobMatches(m.path, events[d].value)

\* C1: when the only group that applies to the caller holds exactly one
\* rule "allow X" and one rule "disallow Y", in either order, and X and Y
\* both match the path, the verdict is "disallowed" iff len(Y) > len(X), the
\* lengths being those of the canonicalised patterns; with len(X) = len(Y),
\* both empty included, the verdict is "allowed".
C1_LongestMatch ==
    pc = "done" =>
        \A a, d \in 1..Len(events) :
            OneGroupTwoRules(a, d) =>
                result = ~(Len(events[d].value) > Len(events[a].value))

\* "disallow: /x/" then "allow: /x" in the caller's group, for the path "/x/"
C1_Witness ==
    /\ pc = "done"
    /\ Len(events) = 3
    /\ OneGroupTwoRules(3, 2)
    /\ events[3].value = Str("/x")
    /\ events[2].value = Str("/x/")
    /\ m.path = Str("/x/")
    /\ ~result

---------------------------------------------------------------------------
(* One RobotsMatcher used for several queries *)

\* C4: every query of a sequence run on one RobotsMatcher returns the
\* verdict a newly made matcher returns for it: once HandleRobotsStart has
\* run, the matcher (path, agents, both match hierarchies and the four
\* flags) is what a new matcher given the same calls is.
C4_PurityModuloReset ==
    /\ Parsing => m = fresh
    /\ pc = "done" => result = ~disallow(fresh)

\* the matcher came to this query with a specific disallow score and the
\* everSeenSpecificAgent flag of an earlier one, which would have disallowed
\* the URI, and the query was allowed by a body that names no agent
C4_Witness ==
    /\ pc = "done"
    /\ before.everSeenSpecificAgent
    /\ before.disallowMatch.specific.priority > 0
    /\ before.disallowMatch.specific.priority > before.allowMatch.specific.priority
    /\ before.path = m.path
    /\ before.userAgents = m.userAgents
    /\ call.robotsBody # <<>>
    /\ events # <<>>
    /\ ~m.everSeenSpecificAgent
    /\ result

---------------------------------------------------------------------------
(* A list of caller agents *)

\* the agents of the list, one at a time
Each(agents) == {<<agents[k]>> : k \in 1..Len(agents)}

\* the best priority over the rules of the groups that name any one agent
MergedScore(es, agents, path, kind) ==
    Max({-1} \cup {Score(es, one, path, kind, "specific") : one \in Each(agents)})

\* C11: with a list of caller agents a group is specific iff one of its
\* user-agent lines names one agent of the list; the rules of all groups
\* specific for some agent of the list are merged into the one specific
\* allow/disallow score pair, and that pair decides the verdict as soon as
\* some agent of the list is named.
C11_MultipleAgents ==
    Parsing =>
        LET agents == m.userAgents
            as == MergedScore(events, agents, m.path, "Allow")
            ds == MergedScore(events, agents, m.path, "Disallow")
        IN  /\ m.seenSpecificAgent =
                   (\E one \in Each(agents) : GroupIsSpecific(events, one))
            /\ m.allowMatch.specific.priority = as
            /\ m.disallowMatch.specific.priority = ds
            /\ (pc = "done" /\ \E one \in Each(agents) : Named(events, one)) =>
                   result = ~(ds > 0 /\ ds > as)

\* two agents are listed and both are named, by different groups; the
\* rules of the second agent's groups alone allow, the merged rules disallow
C11_Witness ==
    /\ pc = "done"
    /\ Len(m.userAgents) = 2
    /\ \A one \in Each(m.userAgents) :
          Named(events, one) /\ RulesIn(events, one, "specific") # {}
    /\ RulesIn(events, <<m.userAgents[1]>>, "specific")
          \cap RulesIn(events, <<m.userAgents[2]>>, "specific") = {}
    /\ ~ScopeDisallows(events, <<m.userAgents[2]>>, m.path, "specific")
    /\ ~result

---------------------------------------------------------------------------
(* User-agent tokens *)

\* the call of fn on its own has returned
Returned(fn) == pc = "function" /\ app.fn = fn /\ app.at = "returned"

\* the bytes 'A'..'Z', 'a'..'z', '-' and '_'
TokenAlphabet == (65..90) \cup (97..122) \cup {45, 95}

C13_WiderTokensValid ==
    (/\ Returned("IsValidUserAgentToObey")
     /\ app.arg # <<>>
     /\ \A j \in 1..Len(app.arg) :
           app.arg[j] \in TokenAlphabet \cup (48..57) \cup {126})
        => app.ret = TRUE

---------------------------------------------------------------------------
(* The path of a URI *)

\* C15: for every URI, the empty one included, GetPathParamsQuery returns
\* without slicing or indexing out of range, and what it returns is not
\* empty, begins with '/' and holds no '#': InitUserAgentsAndPath accepts it.
C15_PathStartsWithSlash ==
    (pc = "function" /\ app.fn = "GetPathParamsQuery") =>
        /\ app.at # "panic"
        /\ app.at \in {"returned", "returned again"} =>
              /\ app.ret # <<>>
              /\ app.ret[1] = SLASH
              /\ \A j \in 1..Len(app.ret) : app.ret[j] # HASH
              /\ ~InitPanics(app.ret)

\* a query without a path, cut at the fragment, gets the '/' in front
C15_Witness ==
    /\ Returned("GetPathParamsQuery")
    /\ app.arg = Str("a?a#;")
    /\ app.ret = Str("/?a")

\* s begins with two slashes
TwoSlashes(s) == Len(s) >= 2 /\ s[1] = SLASH /\ s[2] = SLASH

\* GetPathParamsQuery has been applied to its own result
ReturnedAgain(fn) == pc = "function" /\ app.fn = fn /\ app.at = "returned again"

\* C16 as stated: GetPathParamsQuery applied to its own result returns
\* that result, for every URI.
C16_AsStated ==
    ReturnedAgain("GetPathParamsQuery") => app.ret2 = app.ret

\* C16: GetPathParamsQuery applied to its own result returns without
\* slicing out of range and returns a string that begins with '/'; it
\* returns its argument exactly when that argument does not begin with two
\* slashes.
C16_PathExtractorIdempotence ==
    (pc = "function" /\ app.fn = "GetPathParamsQuery") =>
        /\ app.at # "panic"
        /\ app.at = "returned again" =>
              /\ app.ret2 # <<>> /\ app.ret2[1] = SLASH
              /\ (app.ret2 = app.ret) = ~TwoSlashes(app.ret)

\* the second application returned a path with params and a query unchanged
C16_Witness ==
    /\ ReturnedAgain("GetPathParamsQuery")
    /\ app.arg = Str("a:/;?")
    /\ app.ret = Str("/;?")
    /\ app.ret2 = app.ret

---------------------------------------------------------------------------
(* The canonical form of a pattern *)

\* C17: MaybeEscapePattern applied to its own result returns that result,
\* for every byte string.
C17_CanonicaliserIdempotence ==
    ReturnedAgain("MaybeEscapePattern") => app.ret2 = app.ret

\* a pattern that was rebuilt, with an escape capitalised and a byte
\* escaped, is returned as it is by the second application
C17_Witness ==
    /\ ReturnedAgain("MaybeEscapePattern")
    /\ app.arg = <<PERCENT, 97, 70, 227>>
    /\ app.ret = Str("%AF%E3")
    /\ app.ret2 = app.ret

\* a hex digit: 0-9, a-f or A-F
HexByte(c) == c \in (48..57) \cup (65..70) \cup (97..102)

\* '%XY' with X and Y hex digits begins at index i of s (from 0)
EscapeBegins(s, i) ==
    /\ i + 2 < Len(s)
    /\ s[i + 1] = PERCENT /\ HexByte(s[i + 2]) /\ HexByte(s[i + 3])

\* a hex digit with a letter in upper case, a decimal digit as it is
UpperHex(c) == IF c \in 97..102 THEN c - 32 ELSE c

\* the upper-case hex digit of the value d
HexOf(d) == IF d < 10 THEN 48 + d ELSE 55 + d

\* the canonical form of s from index i on, by the three rules
RECURSIVE Canonical(_, _)
Canonical(s, i) ==
    IF i >= Len(s) THEN <<>>
    ELSE IF EscapeBegins(s, i)
    THEN <<PERCENT, UpperHex(s[i + 2]), UpperHex(s[i + 3])>> \o Canonical(s, i + 3)
    ELSE IF s[i + 1] >= 128
    THEN <<PERCENT, HexOf(s[i + 1] \div 16), HexOf(s[i + 1] % 16)>>
             \o Canonical(s, i + 1)
    ELSE <<s[i + 1]>> \o Canonical(s, i + 1)

\* C18: every '%XY' of the input with X and Y hex digits is emitted as '%',
\* X and Y in this order, letters in upper case and decimal digits
\* unchanged, also when the output is rebuilt: with the rules for the other
\* bytes the output is the canonical form.
C18_EscapesUpperCased ==
    Returned("MaybeEscapePattern") => app.ret = Canonical(app.arg, 0)

\* out from index j on is s from index i on with every byte >= 0x80
\* replaced by its '%HH', every other byte outside an escape copied, and
\* three bytes that begin with '%' for every escape
RECURSIVE HighBytesEscaped(_, _, _, _)
HighBytesEscaped(s, i, out, j) ==
    IF i >= Len(s) THEN j = Len(out)
    ELSE IF EscapeBegins(s, i)
    THEN /\ j + 3 <= Len(out)
         /\ out[j + 1] = PERCENT
         /\ HighBytesEscaped(s, i + 3, out, j + 3)
    ELSE IF s[i + 1] >= 128
    THEN /\ j + 3 <= Len(out)
         /\ SubSeq(out, j + 1, j + 3) =
                <<PERCENT, HexOf(s[i + 1] \div 16), HexOf(s[i + 1] % 16)>>
         /\ HighBytesEscaped(s, i + 1, out, j + 3)
    ELSE /\ j + 1 <= Len(out)
         /\ out[j + 1] = s[i + 1]
         /\ HighBytesEscaped(s, i + 1, out, j + 1)

\* s holds an escape with a hex letter in lower case
LowerCaseEscape(s) ==
    \E i \in 0..(Len(s) - 1) :
        EscapeBegins(s, i) /\ (s[i + 2] \in 97..102 \/ s[i + 3] \in 97..102)

\* C19: every byte >= 0x80 of the input is replaced by '%HH', HH its value
\* in upper-case hex; every byte below 0x80 outside a '%XY' escape is
\* copied, in order; an input with no byte >= 0x80 and no lower-case hex
\* escape is returned as it is.
C19_HighBytesEscaped ==
    Returned("MaybeEscapePattern") =>
        /\ HighBytesEscaped(app.arg, 0, app.ret, 0)
        /\ ((\A j \in 1..Len(app.arg) : app.arg[j] < 128)
              /\ ~LowerCaseEscape(app.arg)) => app.ret = app.arg

\* a high byte escaped between plain bytes, and next to a '%' that begins
\* no escape
C19_Witness ==
    /\ Returned("MaybeEscapePattern")
    /\ app.arg = <<PERCENT, 103, 227, 97>>
    /\ app.ret = Str("%g%E3a")

---------------------------------------------------------------------------
(* Line numbers *)

\* the LF, CR and CR LF terminators that end before offset upto of body: the
\* line-ending bytes, but for an LF right after a CR
Terminators(body, upto) ==
    Cardinality({j \in 1..upto :
                    /\ body[j] \in {LF, CR}
                    /\ ~(body[j] = LF /\ j > 1 /\ body[j - 1] = CR)})

EndsWithTerminator(body) == body # <<>> /\ body[Len(body)] \in {LF, CR}

\* the number of the last line that can hold a directive
LastLine(body) ==
    IF EndsWithTerminator(body) THEN Terminators(body, Len(body))
    ELSE Terminators(body, Len(body)) + 1

\* C20: lines are numbered from 1 and each LF, CR or CR LF ends exactly one
\* line, empty lines included: every directive call carries 1 plus the
\* number of terminators before the line it was read from, the numbers of
\* the calls increase, and none is above n for a body of n terminators that
\* ends with a terminator, above n + 1 for another body.
C20_LineCounting ==
    /\ [][Len(events') > Len(events) =>
            \A k \in (Len(events) + 1)..Len(events') :
                events'[k].line = 1 + Terminators(robotsBody, rpos)]_vars
    /\ [](Parsing =>
            /\ \A k \in 1..Len(events) :
                  events[k].line \in 1..LastLine(call.robotsBody)
            /\ \A j, k \in 1..Len(events) :
                  j < k => events[j].line < events[k].line)

\* a body of CR LF lines that ends with a terminator: the directive of the
\* last line is reported with the number of terminators
C20_Witness ==
    /\ pc = "parsed"
    /\ EndsWithTerminator(call.robotsBody)
    /\ \E j \in 2..Len(call.robotsBody) :
          call.robotsBody[j - 1] = CR /\ call.robotsBody[j] = LF
    /\ Terminators(call.robotsBody, Len(call.robotsBody)) = 3
    /\ events # <<>>
    /\ Last(events).line = 3

---------------------------------------------------------------------------
(* Non-ASCII bytes in the URI *)

\* s with every byte >= 0x80 replaced by its '%HH'
RECURSIVE PercentEncoded(_)
PercentEncoded(s) ==
    IF s = <<>> THEN <<>>
    ELSE IF Head(s) >= 128
    THEN <<PERCENT, HexOf(Head(s) \div 16), HexOf(Head(s) % 16)>>
             \o PercentEncoded(Tail(s))
    ELSE <<Head(s)>> \o PercentEncoded(Tail(s))

\* C14: the verdict for a URI is the verdict for the same URI with the
\* bytes >= 0x80 of its path percent-encoded: the one computed from the
\* rules of the deciding groups on the percent-encoded path.
C14_UriNormalised ==
    pc = "done" =>
        result = ~ScopeDisallows(events, m.userAgents, PercentEncoded(m.path),
                                 DecidingScope(events, m.userAgents))

---------------------------------------------------------------------------
(* The byte order mark *)

\* the number of bytes of a BOM, whole or cut short, that body begins with
BomPrefix(body) ==
    IF Len(body) >= 3 /\ SubSeq(body, 1, 3) = <<239, 187, 191>> THEN 3
    ELSE IF Len(body) >= 2 /\ SubSeq(body, 1, 2) = <<239, 187>> THEN 2
    ELSE IF Len(body) >= 1 /\ body[1] = 239 THEN 1
    ELSE 0

\* the part of a line that is parsed: all of it up to the cap of the buffer
Kept(line) == SubSeq(line, 1, IF Len(line) < 2083 * 8 THEN Len(line) ELSE 2083 * 8 - 1)

\* the handler calls for bytes, read as lines from number n on, with no
\* byte skipped but the terminators
RECURSIVE EventsOfLines(_, _)
EventsOfLines(bytes, n) ==
    LET E == {j \in 1..Len(bytes) : bytes[j] \in {LF, CR}}
    IN  IF E = {} THEN ParseAndEmitLine(n, Kept(bytes))
        ELSE LET e == Min(E)
                 crlf == bytes[e] = CR /\ e < Len(bytes) /\ bytes[e + 1] = LF
                 rest == SubSeq(bytes, IF crlf THEN e + 2 ELSE e + 1, Len(bytes))
             IN  ParseAndEmitLine(n, Kept(SubSeq(bytes, 1, e - 1)))
                     \o EventsOfLines(rest, n + 1)

\* C21: a BOM at the very start of the body, whole or cut short after 1 or
\* 2 bytes, is consumed, also when the byte after a cut BOM is another byte,
\* which is then the first byte of line 1; the handler calls of the parse
\* are those of the remaining bytes read as lines, so that BOM bytes further
\* on belong to their line.
C21_BomSkipped ==
    /\ [][(pc = "start" /\ pc' = "lines") => rpos' = BomPrefix(robotsBody)]_vars
    /\ [](pc = "parsed" =>
            LET body == call.robotsBody
            IN  events = EventsOfLines(SubSeq(body, BomPrefix(body) + 1, Len(body)), 1))

\* a BOM cut after its first byte by another byte: that byte begins line 1,
\* which is reported as unknown, and line 2 is read as it stands
C21_Witness ==
    /\ pc = "parsed"
    /\ BomPrefix(call.robotsBody) = 1
    /\ call.robotsBody[2] = 17
    /\ Len(events) = 2
    /\ events[1].kind = "Unknown" /\ events[1].line = 1 /\ events[1].action[1] = 17
    /\ events[2].kind = "Allow" /\ events[2].line = 2

---------------------------------------------------------------------------
(* The cap on the length of a line *)

\* the bytes of body from offset from (from 0) up to the next terminator
PhysicalLine(body, from) ==
    LET E == {j \in (from + 1)..Len(body) : body[j] \in {LF, CR}}
    IN  SubSeq(body, from + 1, IF E = {} THEN Len(body) ELSE Min(E) - 1)

\* a step that reads one line parses its first cap bytes, all of it when it
\* is no longer, and makes no call for the other bytes; the line keeps its
\* number
LineParsedUpTo(cap) ==
    (pc = "lines" /\ lineNum' = lineNum + 1) =>
        LET line == PhysicalLine(robotsBody, rpos)
            kept == SubSeq(line, 1, IF Len(line) <= cap THEN Len(line) ELSE cap)
        IN  /\ lineNum' = 1 + Terminators(robotsBody, rpos)
            /\ events' = events \o ParseAndEmitLine(lineNum', kept)

\* C22 as stated: lines are parsed up to 2083*8 bytes.
C22_AsStated == [][LineParsedUpTo(2083 * 8)]_vars

\* C22: a line of at most 2083*8 - 1 bytes is parsed in full, and of a
\* longer line exactly the first 2083*8 - 1 bytes are parsed as the line,
\* the other bytes up to the next terminator are dropped without a call, and
\* the line and the lines after it keep their numbers.
C22_LineCap == [][LineParsedUpTo(2083 * 8 - 1)]_vars

\* a line of more than 2083*8 bytes was cut: its value is 9 bytes shorter
\* than the cap, and the next line is reported as line 3
C22_Witness ==
    /\ pc = "parsed"
    /\ Len(PhysicalLine(call.robotsBody, Len(uaFooBar) + 1)) > 2083 * 8
    /\ Len(events) = 3
    /\ events[2].kind = "Sitemap" /\ events[2].line = 2
    /\ Len(events[2].value) = 2083 * 8 - 1 - 9
    /\ events[3].kind = "Disallow" /\ events[3].line = 3

---------------------------------------------------------------------------
(* The parser on any body *)

\* C23: for every body Parse calls HandleRobotsStart, then makes at most one
\* directive call for each line, each step moving on in the body, then
\* calls HandleRobotsEnd and returns; it never panics: neither "Syntax
\* error" nor "bad call to GetUnknownText" is raised for any line.
C23_ParserTotal ==
    /\ [](pc # "panic")
    /\ [](Len(events) <= lineNum /\ rpos <= Len(robotsBody))
    /\ [][pc = "lines" => (rpos' > rpos \/ pc' = "parsed")]_vars
    /\ <>(pc = "parsed")

\* a colon-less line with white space after its one word, where the
\* "Syntax error" test is evaluated, was parsed to the end with no call
C23_Witness ==
    /\ pc = "parsed"
    /\ call.robotsBody = <<SPACE, 97, SPACE, LF>>
    /\ lineNum = 2
    /\ events = <<>>

---------------------------------------------------------------------------
(* The split of a line into key and value *)

Blank(c) == c \in {SPACE, TAB}

\* the words of s: its longest runs of bytes that are no space and no tab
RECURSIVE Words(_)
Words(s) ==
    LET B == {j \in 1..Len(s) : Blank(s[j])}
    IN  IF s = <<>> THEN <<>>
        ELSE IF B = {} THEN <<s>>
        ELSE (IF Min(B) = 1 THEN <<>> ELSE <<SubSeq(s, 1, Min(B) - 1)>>)
                 \o Words(SubSeq(s, Min(B) + 1, Len(s)))

\* the words, each without the other white space around it, and without the
\* words of which nothing is left
WordsTrimmed(s) ==
    LET ws == Words(s)
    IN  SelectSeq([i \in 1..Len(ws) |-> TrimSpace(ws[i])], LAMBDA w : w # <<>>)

BeforeComment(raw) ==
    LET H == {j \in 1..Len(raw) : raw[j] = HASH}
    IN  IF H = {} THEN raw ELSE SubSeq(raw, 1, Min(H) - 1)

\* the handler call for a key and a value in line n
KeyValueCall(n, key, value) ==
    LET k == ParsedRobotsKey(key)
    IN  [kind |-> k.typ, line |-> n, action |-> k.keyText,
         value |-> IF NeedEscapeValueForKey(k) THEN MaybeEscapePattern(value)
                   ELSE value]

\* the calls for the line raw as the claim has them, the words taken as they
\* are (trimmed FALSE) or without other white space (trimmed TRUE)
CallsOfLine(n, raw, trimmed) ==
    LET line == TrimSpace(BeforeComment(raw))
        C == {j \in 1..Len(line) : line[j] = COLON}
        ws == IF trimmed THEN WordsTrimmed(line) ELSE Words(line)
    IN  IF C = {}
        THEN IF Len(ws) = 2 THEN <<KeyValueCall(n, ws[1], ws[2])>> ELSE <<>>
        ELSE LET key == TrimSpace(SubSeq(line, 1, Min(C) - 1))
                 value == TrimSpace(SubSeq(line, Min(C) + 1, Len(line)))
             IN  IF key = <<>> THEN <<>> ELSE <<KeyValueCall(n, key, value)>>

LineSplit(trimmed) ==
    (pc = "lines" /\ lineNum' = lineNum + 1) =>
        events' = events \o CallsOfLine(lineNum', PhysicalLine(robotsBody, rpos), trimmed)

\* C24 as stated: a line without ':' gives a call only when it has exactly
\* two words, the key the first and the value the second; a line with ':'
\* is split at the first ':' and gives no call when its key is empty.
C24_AsStated == [][LineSplit(FALSE)]_vars

\* C24: a line without ':' (comment removed, trimmed) gives a call only when
\* it has exactly two words between spaces and tabs that are not of other
\* white space only, the key the first and the value the second, both
\* without the white space around them; with one such word or with three or
\* more it gives no call; a line with ':' is split at its first ':', key and
\* value trimmed, and gives no call when the key is empty.
C24_MissingColon == [][LineSplit(TRUE)]_vars

\* "user-agent FooBot" was parsed: one call, for the key user-agent
C24_Witness ==
    /\ pc = "parsed"
    /\ call.robotsBody = Str("user-agent FooBot")
    /\ Len(events) = 1
    /\ events[1].kind = "UserAgent"
    /\ events[1].value = Str("FooBot")

---------------------------------------------------------------------------
(* The kind of a key *)

\* the names of a kind of directive
NamesOf(kind, typos) ==
    CASE kind = "UserAgent" ->
             {keyUserAgent} \cup (IF typos THEN {keyUseragent, keyUserSpaceAgent} ELSE {})
      [] kind = "Allow" -> {keyAllow}
      [] kind = "Disallow" ->
             {keyDisallow} \cup (IF typos THEN {keyDissallow, keyDissalow, keyDisalow,
                                                keyDiasllow, keyDisallaw}
                                 ELSE {})
      [] kind = "Sitemap" -> {keySitemap, keySiteMap}

\* the kinds of which a name begins the key in small letters
KindsOf(small, typos) ==
    {kind \in {"UserAgent", "Allow", "Disallow", "Sitemap"} :
        \E n \in NamesOf(kind, typos) : Len(n) <= Len(small) /\ SubSeq(small, 1, Len(n)) = n}

\* the key of a line that has one
KeyOfLine(raw) ==
    LET line == TrimSpace(BeforeComment(raw))
        C == {j \in 1..Len(line) : line[j] = COLON}
    IN  IF C = {} THEN WordsTrimmed(line)[1]
        ELSE TrimSpace(SubSeq(line, 1, Min(C) - 1))

\* the call made for a line has the one kind of which a name begins its key,
\* ASCII capitals made small (ascii TRUE) or after strings.ToLower (ascii
\* FALSE), and is for an unknown key with the text of the key when there is
\* no such kind
KeyClassified(ascii) ==
    (pc = "lines" /\ Len(events') = Len(events) + 1) =>
        LET key == KeyOfLine(PhysicalLine(robotsBody, rpos))
            K == KindsOf(IF ascii THEN AsciiLower(key) ELSE ToLower(key),
                         AllowFrequentTypos)
            e == events'[Len(events')]
        IN  /\ Cardinality(K) <= 1
            /\ K # {} => (K = {e.kind} /\ e.action = <<>>)
            /\ K = {} => (e.kind = "Unknown" /\ e.action = key)

\* C26 as stated: the kind of a key is found by a case-insensitive prefix
\* match with the names, the typos among them iff AllowFrequentTypos.
C26_AsStated == [][KeyClassified(TRUE)]_vars

\* C26: the key, in small letters as strings.ToLower makes it (ASCII
\* capitals, and U+0130 for 'i' and U+212A for 'k'), begins with the name of
\* at most one kind, the typos counted iff AllowFrequentTypos; the call is of
\* that kind, and for an unknown key with the text of the key when there is
\* none.
C26_KeyClassification == [][KeyClassified(FALSE)]_vars

\* with AllowFrequentTypos off, "dissalow: /x" was parsed as an unknown key
C26_Witness ==
    /\ pc = "parsed"
    /\ ~AllowFrequentTypos
    /\ call.robotsBody = keyDissalow \o keyLineRest
    /\ Len(events) = 1
    /\ events[1].kind = "Unknown"
    /\ events[1].action = keyDissalow

---------------------------------------------------------------------------
(* Lines and calls *)

\* the line has a key and a value: a key before its first ':', or two words
HasKeyAndValue(raw) ==
    LET line == TrimSpace(BeforeComment(raw))
        C == {j \in 1..Len(line) : line[j] = COLON}
    IN  IF C = {} THEN Len(WordsTrimmed(line)) = 2
        ELSE TrimSpace(SubSeq(line, 1, Min(C) - 1)) # <<>>

\* a line that is not empty (every TRUE), or that has a key and a value
\* (every FALSE), gives exactly one call, with its number, which is for an
\* unknown key when the key is of no kind of directive; a line that is not
\* empty and has no key and value gives none (every FALSE)
LineGivesCall(every) ==
    (pc = "lines" /\ lineNum' = lineNum + 1) =>
        LET raw == PhysicalLine(robotsBody, rpos)
            e == events'[Len(events')]
        IN  TrimSpace(BeforeComment(raw)) # <<>> =>
                IF every \/ HasKeyAndValue(raw)
                THEN /\ Len(events') = Len(events) + 1
                     /\ SubSeq(events', 1, Len(events)) = events
                     /\ e.line = lineNum'
                     /\ KindsOf(ToLower(KeyOfLine(raw)), AllowFrequentTypos) = {}
                            => e.kind = "Unknown"
                ELSE events' = events

\* C25 as stated: every line that is not empty after comment removal and
\* trimming gives exactly one call, for an unknown key when the line is not
\* recognised as a directive.
C25_AsStated == [][LineGivesCall(TRUE)]_vars

\* C25: every line with a key and a value (a key before its first ':', or
\* exactly two words without a ':') gives exactly one call, for an unknown
\* key when the key is of no kind of directive; the other lines (without a
\* ':' and of one word or of three or more, or with nothing before the
\* first ':') give no call.
C25_LinesWithKeyGiveCall == [][LineGivesCall(FALSE)]_vars

\* "foo: FooBot" was parsed: one call, for the unknown key foo
C25_Witness ==
    /\ pc = "parsed"
    /\ call.robotsBody = Str("foo: FooBot")
    /\ Len(events) = 1
    /\ events[1].kind = "Unknown"
    /\ events[1].action = Str("foo")

---------------------------------------------------------------------------
(* The sitemaps of a body *)

\* the value of a line that has a key and a value
ValueOfLine(raw) ==
    LET line == TrimSpace(BeforeComment(raw))
        C == {j \in 1..Len(line) : line[j] = COLON}
    IN  IF C = {} THEN WordsTrimmed(line)[2]
        ELSE TrimSpace(SubSeq(line, Min(C) + 1, Len(line)))

\* the values of the sitemap lines of bytes, as they are in the line, in
\* the order of the lines
RECURSIVE SitemapValues(_)
SitemapValues(bytes) ==
    LET E == {j \in 1..Len(bytes) : bytes[j] \in {LF, CR}}
        line == IF E = {} THEN bytes ELSE SubSeq(bytes, 1, Min(E) - 1)
        here == IF /\ HasKeyAndValue(line)
                   /\ KindsOf(ToLower(KeyOfLine(line)), AllowFrequentTypos) = {"Sitemap"}
                THEN <<ValueOfLine(line)>>
                ELSE <<>>
    IN  IF E = {} THEN here
        ELSE here \o SitemapValues(SubSeq(bytes, Min(E) + 1, Len(bytes)))

\* C27: what Sitemaps(body) returns is the list of the values of the sitemap
\* lines of body, in the order of the file, a value as often as it stands
\* there, each as it is in the line but for the white space around it,
\* wherever the line is among the groups; the list is emptied by
\* HandleRobotsStart, so that nothing an extractor held before is returned.
C27_Sitemaps ==
    /\ [](pc \in {"parsed", "returned"} => sitemaps = SitemapValues(robotsBody))
    /\ [][pc = "start" => sitemaps' = <<>>]_vars

\* returned for a body with the same sitemap line, whose value the pattern
\* canonicaliser would change, before and in a group
C27_Witness ==
    /\ pc = "returned"
    /\ robotsBody = Join(<<sitemapA, uaStar, sitemapA>>, <<LF>>)
    /\ sitemaps = <<Str("http://h/%aa"), Str("http://h/%aa")>>

---------------------------------------------------------------------------
(* The decision *)

\* the decision as the claim has it, from the four priorities and the flag
Decision(as, ds, ag, dg, ever) ==
    CASE as > 0 \/ ds > 0 -> ds > as
      [] ~(as > 0 \/ ds > 0) /\ ever -> FALSE
      [] ~(as > 0 \/ ds > 0) /\ ~ever /\ (ag > 0 \/ dg > 0) -> dg > ag
      [] OTHER -> FALSE

DecisionOf(mm) ==
    Decision(mm.allowMatch.specific.priority, mm.disallowMatch.specific.priority,
             mm.allowMatch.global.priority, mm.disallowMatch.global.priority,
             mm.everSeenSpecificAgent)

\* a new matcher with the scores and the flag everSeenSpecificAgent of mm
ScoresAndFlag(mm) ==
    [NewRobotsMatcher EXCEPT !.allowMatch = mm.allowMatch,
                             !.disallowMatch = mm.disallowMatch,
                             !.everSeenSpecificAgent = mm.everSeenSpecificAgent]

\* C29: after HandleRobotsEnd, disallow() is (disallow.specific.priority >
\* allow.specific.priority) if either specific priority is above 0; else
\* false if everSeenSpecificAgent; else (disallow.global.priority >
\* allow.global.priority) if either global priority is above 0; else false.
\* It depends on the scores and the flag only, and the step that calls it
\* leaves the matcher as it is, so that a second call returns the same.
C29_DecisionFormula ==
    /\ [](pc \in {"parsed", "done"} =>
             /\ disallow(m) = DecisionOf(m)
             /\ disallow(m) = disallow(ScoresAndFlag(m)))
    /\ [][pc = "parsed" =>
             (result' = ~DecisionOf(m) /\ m' = m /\ disallow(m') = disallow(m))]_vars

\* returned "allowed" for a caller whose own group has no rule, while a rule
\* of the group for every crawler disallows the path
C29_Witness ==
    /\ pc = "done"
    /\ result
    /\ m.everSeenSpecificAgent
    /\ m.allowMatch.specific.priority <= 0
    /\ m.disallowMatch.specific.priority <= 0
    /\ m.disallowMatch.global.priority > 0
    /\ m.disallowMatch.global.priority > m.allowMatch.global.priority

---------------------------------------------------------------------------
(* The four scores *)

ScoreKinds == {"Allow", "Disallow"}

ScoreScopes == {"global", "specific"}

\* one of the four scores of a matcher
ScoreOf(mm, kind, scope) ==
    IF kind = "Allow" THEN mm.allowMatch[scope] ELSE mm.disallowMatch[scope]

\* the line of the first rule of a kind recorded under scope that has the
\* best priority, and 0 when no such rule matches
FirstBestLine(es, agents, path, kind, scope) ==
    LET best == Score(es, agents, path, kind, scope)
        R == {k \in RulesIn(es, agents, scope) :
                 es[k].kind = kind /\ RulePriority(path, es[k]) = best}
    IN  IF best = -1 THEN 0 ELSE es[Min(R)].line

\* C30: from HandleRobotsStart to HandleRobotsEnd the priority of each of
\* the four scores never falls; a score changes only in a step that handles
\* a rule of its kind whose priority on the path is above the priority
\* stored, and then takes that priority and the line of the rule; at the end
\* its priority is the best over the matching rules recorded under it (-1
\* when there is none) and its line is that of the first rule with that
\* priority; a rule in a group that names both every crawler and the caller
\* changes no global score.
C30_ScoreUpdate ==
    /\ [][pc = "lines" =>
             \A kind \in ScoreKinds, scope \in ScoreScopes :
                 LET old == ScoreOf(m, kind, scope)
                     new == ScoreOf(m', kind, scope)
                 IN  /\ new.priority >= old.priority
                     /\ new # old =>
                            /\ RuleHandled
                            /\ Last(events').kind = kind
                            /\ RulePriority(m.path, Last(events')) > old.priority
                            /\ new = Set(RulePriority(m.path, Last(events')),
                                         Last(events').line)
                     /\ (/\ RuleHandled
                         /\ GroupIsGlobal(events)
                         /\ GroupIsSpecific(events, m.userAgents)
                         /\ scope = "global") => new = old]_vars
    /\ [](pc = "parsed" =>
             \A kind \in ScoreKinds, scope \in ScoreScopes :
                 /\ ScoreOf(m, kind, scope).priority
                        = Score(events, m.userAgents, m.path, kind, scope)
                 /\ ScoreOf(m, kind, scope).line
                        = FirstBestLine(events, m.userAgents, m.path, kind, scope))

\* two rules of a group of the caller with the same priority were handled:
\* the score has the line of the first
C30_Witness ==
    /\ pc = "parsed"
    /\ Len(events) = 3
    /\ events[2].kind = "Disallow"
    /\ events[3] = [events[2] EXCEPT !.line = 3]
    /\ m.disallowMatch.specific = Set(Len(events[2].value), 2)

---------------------------------------------------------------------------
(* Two callers at once *)

\* what AllowedByRobots returns for a call that runs alone on a new matcher
Verdict(q) ==
    LET mm == InitUserAgentsAndPath(NewRobotsMatcher, q.userAgents,
                                    GetPathParamsQuery(q.uri))
        es == EventsOfLines(Slice(q.robotsBody, SkipBOM(q.robotsBody),
                                  Len(q.robotsBody)), 1)
    IN  ~disallow(HandleRobotsEnd(EmitAll(HandleRobotsStart(mm), es)))

\* C28: when each of two callers at once has a matcher of its own, each is
\* returned the verdict of its call run alone, however their steps
\* interleave, and no call panics; when both use one matcher, a call can be
\* returned another verdict (the state C28_Witness).
C28_OwnMatcherSequential ==
    \A i \in {1, 2} :
        ~tasks.shared =>
            /\ tasks.task[i].pc # "panic"
            /\ tasks.task[i].pc = "done" =>
                   tasks.task[i].result = Verdict(tasks.task[i].call)

\* on one matcher for both, the first caller was returned "allowed" for a
\* call that alone is disallowed
C28_Witness ==
    /\ tasks.shared
    /\ tasks.task[1].pc = "done"
    /\ tasks.task[1].result
    /\ ~Verdict(tasks.task[1].call)

---------------------------------------------------------------------------
(* The order of the handler calls *)

\* the calls of a parse run that are neither its first nor its last
Directives ==
    {"HandleUserAgent", "HandleAllow", "HandleDisallow", "HandleSitemap",
     "HandleUnknownAction"}

\* the handler calls so far are a HandleRobotsStart, then one directive call
\* for each recorded event, then closed HandleRobotsEnd calls
Bracketed(closed) ==
    /\ Len(handlerCalls) = 1 + Len(events) + closed
    /\ handlerCalls[1] = "HandleRobotsStart"
    /\ \A k \in 1..Len(events) : handlerCalls[k + 1] \in Directives
    /\ closed = 1 => handlerCalls[Len(handlerCalls)] = "HandleRobotsEnd"

\* C31: in every parse run HandleRobotsStart is the first handler call and
\* HandleRobotsEnd the last, each made exactly once (no call before the
\* first, none after the last, none of the two in between, and no run is
\* cut short by a panic); every step of
\* the line loop adds at most one directive call, numbered with the line it
\* read, after the calls made before it, so that the line numbers of
\* successive calls are strictly increasing.
C31_EventOrdering ==
    /\ [][(pc = "lines" /\ pc' # "panic") =>
               /\ Len(events') - Len(events) <= lineNum' - lineNum
               /\ SubSeq(events', 1, Len(events)) = events
               /\ SubSeq(handlerCalls', 1, Len(handlerCalls)) = handlerCalls
               /\ \A k \in (Len(events) + 1)..Len(events') :
                      events'[k].line = lineNum']_vars
    /\ [][(pc \in {"parsed", "done"} /\ pc' \in {"parsed", "done"}) =>
               handlerCalls' = handlerCalls]_vars
    /\ [](pc \in {"start", "panic"} => handlerCalls = <<>>)
    /\ [](pc = "lines" => Bracketed(0))
    /\ [](pc \in {"parsed", "done"} => Bracketed(1))
    /\ [](Parsing =>
            \A j, k \in 1..Len(events) : j < k => events[j].line < events[k].line)

\* a body with empty lines in it was parsed: the second call is for line 3,
\* and twelve calls were made for its twelve lines
C31_Witness ==
    /\ pc = "done"
    /\ Len(events) = 10
    /\ events[1].line = 1
    /\ events[2].line = 3
    /\ Len(handlerCalls) = 12
    /\ handlerCalls[12] = "HandleRobotsEnd"

---------------------------------------------------------------------------
(* Sitemap lines and lines of unknown keys *)

\* the body without its lines that are Sitemap lines or lines of an unknown
\* key, each dropped with its terminator
RECURSIVE WithoutNoise(_)
WithoutNoise(body) ==
    LET E == {j \in 1..Len(body) : body[j] = LF}
    IN  IF E = {} THEN (IF body \in NoiseLines THEN <<>> ELSE body)
        ELSE LET e == Min(E)
                 rest == WithoutNoise(SubSeq(body, e + 1, Len(body)))
             IN  IF SubSeq(body, 1, e - 1) \in NoiseLines THEN rest
                 ELSE SubSeq(body, 1, e) \o rest

\* the matcher at the end of the parse of a call that runs alone
ParsedAlone(q) ==
    LET mm == InitUserAgentsAndPath(NewRobotsMatcher, q.userAgents,
                                    GetPathParamsQuery(q.uri))
        es == EventsOfLines(Slice(q.robotsBody, SkipBOM(q.robotsBody),
                                  Len(q.robotsBody)), 1)
    IN  HandleRobotsEnd(EmitAll(HandleRobotsStart(mm), es))

\* what the verdict is made of: the four priorities and the flags
MatchingState(mm) ==
    <<mm.allowMatch.global.priority, mm.allowMatch.specific.priority,
      mm.disallowMatch.global.priority, mm.disallowMatch.specific.priority,
      mm.seenGlobalAgent, mm.seenSpecificAgent, mm.everSeenSpecificAgent,
      mm.seenSeparator>>

---------------------------------------------------------------------------
(* Which values are canonicalised *)

\* the call made for a line carries the value of the line, put through
\* MaybeEscapePattern for Allow and Disallow, as it is for User-agent and
\* Sitemap
ValueEmitted ==
    (pc = "lines" /\ Len(events') = Len(events) + 1) =>
        LET e == Last(events')
            value == ValueOfLine(PhysicalLine(robotsBody, rpos))
        IN  /\ e.kind \in {"Allow", "Disallow"} => e.value = MaybeEscapePattern(value)
            /\ e.kind \in {"UserAgent", "Sitemap"} => e.value = value

\* C33: the value of an Allow or Disallow line is handed to the handler as
\* MaybeEscapePattern returns it, and the value of a User-agent or Sitemap
\* line as it stands in the line, trimmed only.
C33_CanonicalisationScope == [][ValueEmitted]_vars

\* a Sitemap line whose value has a lower-case escape was parsed and the
\* value was handed on unchanged
C33_Witness ==
    /\ pc = "parsed"
    /\ call.robotsBody = keySitemap \o <<COLON, SPACE>> \o valueLowerEscape
    /\ Len(events) = 1
    /\ events[1].kind = "Sitemap"
    /\ events[1].value = valueLowerEscape
    /\ MaybeEscapePattern(valueLowerEscape) # valueLowerEscape

---------------------------------------------------------------------------
(* The candidates of the pattern matcher *)

\* all of s matches all of p, where '*' stands for any bytes and every other
\* byte, '$' too, for itself
RECURSIVE FullMatch(_, _)
FullMatch(s, p) ==
    IF p = <<>> THEN s = <<>>
    ELSE IF p[1] = STAR
    THEN \E k \in 0..Len(s) : FullMatch(SubSeq(s, k + 1, Len(s)), Tail(p))
    ELSE s # <<>> /\ s[1] = p[1] /\ FullMatch(Tail(s), Tail(p))

\* the offsets k of path such that path[0..k) matches the first n bytes of
\* the pattern
Candidates(path, pattern, n) ==
    {k \in 0..Len(path) : FullMatch(SubSeq(path, 1, k), SubSeq(pattern, 1, n))}

\* C34: whenever the main loop of RobotsMatchStrategy_Matches is at its head
\* or was left at the end of the pattern or at its final '$', pos has
\* len(path) + 1 entries, 1 <= numpos <= len(path) + 1, pos[0..numpos-1] is
\* strictly increasing within 0..len(path) and holds exactly the offsets k
\* such that path[0..k) matches the i bytes of the pattern consumed so far,
\* so that pos[numpos-1] is the largest of them; and when the loop is left
\* with numpos = 0, no offset matches the pattern up to and including
\* pattern[i].
C34_CandidateSet ==
    pc = "matches" =>
        IF ms.done /\ ms.numpos = 0
        THEN ~ms.ret /\ Candidates(ms.path, ms.pattern, ms.i + 1) = {}
        ELSE /\ Len(ms.pos) = Len(ms.path) + 1
             /\ ms.numpos \in 1..(Len(ms.path) + 1)
             /\ ms.i \in 0..Len(ms.pattern)
             /\ \A j \in 1..ms.numpos : ms.pos[j] \in 0..Len(ms.path)
             /\ \A j \in 1..(ms.numpos - 1) : ms.pos[j] < ms.pos[j + 1]
             /\ {ms.pos[j] : j \in 1..ms.numpos}
                    = Candidates(ms.path, ms.pattern, ms.i)
             /\ \A k \in Candidates(ms.path, ms.pattern, ms.i) :
                    k <= ms.pos[ms.numpos]

\* "aAa" against "*a": after the two bytes of the pattern the candidates
\* are the offsets 1 and 3
C34_Witness ==
    /\ pc = "matches"
    /\ ms.path = <<97, 65, 97>>
    /\ ms.pattern = <<STAR, 97>>
    /\ ms.i = 2
    /\ ms.numpos = 2
    /\ ms.pos[1] = 1
    /\ ms.pos[2] = 3

---------------------------------------------------------------------------
(* The work of the pattern matcher *)

\* C35: for every path and pattern RobotsMatchStrategy_Matches returns,
\* after at most len(pattern) passes through its main loop, each of at
\* most len(path) + 1 passes through an inner loop over the candidates, at
\* most len(pattern) * (len(path) + 1) in all, also for a pattern of '*'
\* only; pos keeps its len(path) + 1 entries and the index into the
\* pattern never goes back.
C35_BoundedWork ==
    /\ [](pc = "matches" =>
            /\ ms.iters <= Len(ms.pattern)
            /\ ms.steps <= Len(ms.path) + 1
            /\ ms.work <= Len(ms.pattern) * (Len(ms.path) + 1)
            /\ Len(ms.pos) = Len(ms.path) + 1)
    /\ [][pc = "matches" =>
            /\ ms'.i \in {ms.i, ms.i + 1}
            /\ ms'.i = ms.i => ms'.done
            /\ ms'.path = ms.path /\ ms'.pattern = ms.pattern]_vars
    /\ <>(pc = "matches" /\ ms.done)

\* "aaa" against "***" returned after three passes of three inner passes
C35_Witness ==
    /\ pc = "matches"
    /\ ms.done
    /\ ms.path = <<97, 97, 97>>
    /\ ms.pattern = <<STAR, STAR, STAR>>
    /\ ms.iters = 3
    /\ ms.work = 9

---------------------------------------------------------------------------
(* The panic "Not seen global agent" *)

\* a step of a handler method sets a global score
GlobalScoreSet ==
    \/ m'.allowMatch.global # m.allowMatch.global
    \/ m'.disallowMatch.global # m.disallowMatch.global

\* C36: whatever handler methods are called, in whatever order and number,
\* HandleAllow and HandleDisallow never panic, and a step that records a
\* rule under a global score starts with seenGlobalAgent set, unless it
\* is HandleRobotsStart putting the scores back.
C36_NoPanic ==
    /\ [](pc # "panic")
    /\ [][(GlobalScoreSet /\ m' # HandleRobotsStart(m)) =>
             m.seenGlobalAgent /\ ~m.seenSpecificAgent]_vars

\* a rule was recorded under the global score in a run that had no
\* HandleRobotsStart
C36_Witness ==
    /\ pc = "handlers"
    /\ m.disallowMatch.global.priority = 3
    /\ before.disallowMatch.global.priority = -1
    /\ m.seenGlobalAgent

---------------------------------------------------------------------------
(* Flags and scores of the matcher *)

\* the four scores of a matcher
ScoresOf(mm) ==
    {mm.allowMatch.global, mm.allowMatch.specific,
     mm.disallowMatch.global, mm.disallowMatch.specific}

\* C39: in every state after a HandleRobotsStart, whatever handler methods
\* were called since: seenSeparator implies seenGlobalAgent or
\* seenSpecificAgent; seenSpecificAgent implies everSeenSpecificAgent; a
\* specific score of priority >= 0 implies everSeenSpecificAgent; and each
\* of the four scores has priority >= -1, and priority -1 exactly when its
\* line is 0.
C39_FlagsAndScores ==
    pc = "started" =>
        /\ m.seenSeparator => (m.seenGlobalAgent \/ m.seenSpecificAgent)
        /\ m.seenSpecificAgent => m.everSeenSpecificAgent
        /\ m.allowMatch.specific.priority >= 0 => m.everSeenSpecificAgent
        /\ m.disallowMatch.specific.priority >= 0 => m.everSeenSpecificAgent
        /\ \A score \in ScoresOf(m) :
               /\ score.priority >= -1
               /\ score.priority = -1 <=> score.line = 0

\* after HandleRobotsStart, the caller's agent line and two rules: the
\* separator is set, and a specific score holds priority 3 from line 4
C39_Witness ==
    /\ pc = "started"
    /\ handlerCalls = <<"HandleRobotsStart", "HandleUserAgent", "HandleAllow",
                        "HandleDisallow">>
    /\ m.seenSeparator /\ m.seenSpecificAgent /\ ~m.seenGlobalAgent
    /\ m.allowMatch.specific = Set(2, 3)
    /\ m.disallowMatch.specific = Set(3, 4)

---------------------------------------------------------------------------
(* The index.htm rewrite *)

\* how many times HandleAllow calls itself when it is called with value
RECURSIVE Reentries(_, _)
Reentries(mm, value) ==
    IF ~seenAnyAgent(mm) THEN 0
    ELSE IF MatchAllow(mm.path, value) >= 0 THEN 0
    ELSE IF IsIndexHtm(value)
    THEN 1 + Reentries([mm EXCEPT !.seenSeparator = TRUE], IndexHtmPattern(value))
    ELSE 0

EndsInSlashDollar(p) ==
    Len(p) >= 2 /\ p[Len(p) - 1] = SLASH /\ p[Len(p)] = DOLLAR

\* C37: a call of HandleAllow calls itself at most once, whatever the
\* value and the state of the matcher: the pattern it makes for a value
\* that names an index page ends in "/$", so that what follows its last
\* '/' does not begin with "/index.htm" and the rewrite does not apply to it.
C37_RewriteDepth ==
    \A k \in 1..Len(events) :
        (pc \in {"handlers", "started"} /\ events[k].kind = "Allow") =>
            LET value == events[k].value
            IN  /\ Reentries(before, value) <= 1
                /\ IsIndexHtm(value) =>
                       /\ EndsInSlashDollar(IndexHtmPattern(value))
                       /\ ~IsIndexHtm(IndexHtmPattern(value))

\* "allow: /y/index.html" in the group of every crawler, for the path /x/:
\* neither the value nor "/y/$" matches; HandleAllow called itself once
\* and left the scores as they were
C37_Witness ==
    /\ pc = "started"
    /\ Len(events) = 1
    /\ events[1].kind = "Allow"
    /\ events[1].value = Str("/y/index.html")
    /\ before.seenGlobalAgent
    /\ Reentries(before, events[1].value) = 1
    /\ m = [before EXCEPT !.seenSeparator = TRUE]

---------------------------------------------------------------------------
(* The path of a URI, step by step *)

\* the path of uri by the procedure: the positions count from 1, and a
\* leading "//" is left out of every search
PathOf(uri) ==
    LET skipped == IF TwoSlashes(uri) THEN 2 ELSE 0
        After(p) == (p + 1)..Len(uri)
        PathChars == {p \in After(skipped) : uri[p] \in {SLASH, 63, 59}}
        Seps == {p \in After(skipped) :
                    p + 2 <= Len(uri) /\ SubSeq(uri, p, p + 2) = <<COLON, SLASH, SLASH>>}
        scheme == Seps # {} /\ \A q \in PathChars : q > Min(Seps)
        Starts == IF scheme THEN {p \in PathChars : p > Min(Seps) + 2} ELSE PathChars
        Hashes == {p \in After(skipped) : uri[p] = HASH}
    IN  IF Starts = {} THEN <<SLASH>>
        ELSE IF Hashes # {} /\ Min(Hashes) < Min(Starts) THEN <<SLASH>>
        ELSE LET path == SubSeq(uri, Min(Starts),
                                IF Hashes = {} THEN Len(uri) ELSE Min(Hashes) - 1)
             IN  IF uri[Min(Starts)] = SLASH THEN path ELSE <<SLASH>> \o path

\* C38: for every URI, GetPathParamsQuery returns what the procedure gives:
\* a leading "//" is skipped; the first "://" after it ends a scheme only
\* if no '/', '?' or ';' stands before it; the path goes from the first
\* '/', '?' or ';' after the scheme, or after the start of the search when
\* there is no scheme, to the first '#' or the end; it is "/" when there is
\* no such start or a '#' stands before it, as for the empty URI; and a
\* path that begins with '?' or ';' gets a '/' in front.
C38_PathProcedure ==
    (pc = "function" /\ app.fn = "GetPathParamsQuery") =>
        /\ app.at # "panic"
        /\ app.at \in {"returned", "returned again"} => app.ret = PathOf(app.arg)

\* "/://a" has a '/' before its "://": no scheme, the whole is the path
C38_Witness ==
    /\ Returned("GetPathParamsQuery")
    /\ app.arg = <<SLASH, COLON, SLASH, SLASH, 97>>
    /\ app.ret = app.arg

---------------------------------------------------------------------------
(* Caller agents that are no tokens *)

\* agent has a byte outside [A-Za-z_-]: as it stands, or (folded) after
\* Unicode simple case folding, which takes KELVIN SIGN to k and LONG S to s
NoToken(agent, folded) ==
    LET bytes == IF folded THEN FoldRunes(agent) ELSE agent
    IN  \E j \in 1..Len(bytes) : bytes[j] \notin TokenAlphabet

\* in a call whose agents are all of that kind no line is taken as naming
\* the caller, and the verdict is that of the rules of the groups for every
\* crawler
NoTokenNeverNamed(folded) ==
    (/\ Parsing
     /\ m.userAgents # <<>>
     /\ \A k \in 1..Len(m.userAgents) : NoToken(m.userAgents[k], folded)) =>
        /\ ~m.seenSpecificAgent
        /\ ~m.everSeenSpecificAgent
        /\ m.allowMatch.specific = newMatch
        /\ m.disallowMatch.specific = newMatch
        /\ pc = "done" =>
               result = ~ScopeDisallows(events, <<>>, m.path, "global")

\* C40 as stated: a caller agent with any byte outside [A-Za-z_-] is never
\* named by a user-agent line, so that everSeenSpecificAgent stays false and
\* the rules of the global groups decide.
C40_AsStated == NoTokenNeverNamed(FALSE)

\* C40: a caller agent that has a byte outside [A-Za-z_-] also after
\* Unicode simple case folding (which takes KELVIN SIGN to k and LONG S to
\* s) is never named by a user-agent line: everSeenSpecificAgent stays
\* false, no specific score is set, and the rules of the global groups
\* decide the verdict.
C40_NoTokenAgents == NoTokenNeverNamed(TRUE)

\* the caller "FOO bar" is not named by the line "User-Agent: FOO bar": the
\* disallow rule of the group for every crawler decides, not the allow rule
\* after that line
C40_Witness ==
    /\ pc = "done"
    /\ m.userAgents = <<agentFooSpaceBar>>
    /\ Len(events) = 4
    /\ events[3].value = agentFooSpaceBar
    /\ ~m.everSeenSpecificAgent
    /\ ~result

===========================================================================
